---- MODULE Spec2Model ----
(***************************************************************************)
(* Model of the rucbase-lab transaction core: the blocking wait-die lock   *)
(* manager (lock_manager.cpp, first variant), the transaction manager      *)
(* (transaction_manager.cpp), the record heap (rm_file_handle.cpp) and the *)
(* executors that drive them.                                              *)
(***************************************************************************)
EXTENDS Integers, Sequences, FiniteSets, TLC

(***************************************************************************)
(* Bounds                                                                  *)
(***************************************************************************)
NumTxns == 3        \* transactions begun by the transaction manager
NumRids == 2        \* records of the one table that can be locked
MaxReq == 3         \* lock calls and statements issued in one run
NumWorkers == 2     \* transactions that run statements on the table
NumKeys == 3        \* record payloads (the value of the indexed column)
MaxPages == 3       \* num_pages up to which a statement inserts
num_records_per_page == 2       \* RmFileHdr::num_records_per_page
MaxHeapPages == 3   \* record pages a caller of the record file fills
NumBufs == 2        \* payloads a caller of the record file writes
pool_size_ == 2     \* BufferPoolManager::pool_size_
MaxBpPages == 3     \* pages the disk manager allocates in the file
NumDatas == 2       \* page contents a caller of the buffer pool writes

Txns == 1..NumTxns
Tab == 0                        \* LockDataId(tab_fd, TABLE)
Rids == 1..NumRids              \* LockDataId(tab_fd, rid, RECORD)
LockIds == {Tab} \cup Rids

VARIABLES
    txn_state,      \* Transaction::state_ of every transaction
    lock_set,       \* Transaction::lock_set_
    lock_table_,    \* LockManager::lock_table_: LockDataId -> request_queue_
    pc,             \* where each transaction's thread is
    woken,          \* waiters that were notified (or woke spuriously)
    last,           \* result of the last call each transaction made
    unlocked,       \* unlock() has been called for the transaction
    reuse,          \* callers keep using a transaction after commit or abort
    nreq,           \* number of calls issued so far
    fh,             \* RmFileHandle: file_hdr_ and the record pages of the table
    ih,             \* IxIndexHandle: the entries of the table's index
    write_set,      \* Transaction::write_set_
    tree,           \* IxIndexHandle: file_hdr_, the node pages and their pin counts
    present,        \* the entries the index was given and still has to hold
    ret,            \* what the last storage operation returned
    scan,           \* IxScan: iid_ and end_ of the caller's cursor
    hpin,           \* pin counts of the pages of the table's record file
    pages_,         \* BufferPoolManager::pages_: the frames
    page_table_,    \* BufferPoolManager::page_table_: PageId -> frame
    free_list_,     \* BufferPoolManager::free_list_
    replacer_,      \* the frames the replacer may evict, least recently unpinned first
    disk_,          \* DiskManager: the pages of the file and its page allocator
    net_pins,       \* per page: pins handed out minus unpins accepted since it was loaded
    latest          \* per page: the content its last writer left

datavars == <<fh, ih, write_set>>

\* the storage layer below the executors, driven on its own
ixvars == <<tree, present, ret, scan>>
bpmvars == <<pages_, page_table_, free_list_, replacer_, disk_, net_pins, latest>>
storevars == <<ixvars, hpin, bpmvars>>

\* the transaction layer
txnvars == <<txn_state, lock_set, lock_table_, pc, woken, last,
             unlocked, reuse, nreq, ih, write_set>>

vars == <<txn_state, lock_set, lock_table_, pc, woken, last,
          unlocked, reuse, nreq, fh, ih, write_set, storevars>>

(***************************************************************************)
(* Lock modes and the lambdas of the lock_* functions                      *)
(***************************************************************************)
LockModes == {"IS", "IX", "S", "SIX", "X"}

RecordFns == {"lock_shared_on_record", "lock_exclusive_on_record"}
TableFns == {"lock_shared_on_table", "lock_exclusive_on_table",
             "lock_IS_on_table", "lock_IX_on_table"}

\* the mode each lock_* function requests
ReqMode(fn) ==
    CASE fn = "lock_shared_on_record" -> "S"
      [] fn = "lock_exclusive_on_record" -> "X"
      [] fn = "lock_shared_on_table" -> "S"
      [] fn = "lock_exclusive_on_table" -> "X"
      [] fn = "lock_IS_on_table" -> "IS"
      [] fn = "lock_IX_on_table" -> "IX"

\* the intention lock a record function takes on the table first
IntentionFn(fn) ==
    IF fn = "lock_shared_on_record" THEN "lock_IS_on_table" ELSE "lock_IX_on_table"

\* lambda compatible of lock_shared_on_record / lock_shared_on_table
compatible(req, held) ==
    IF held = "X" THEN FALSE
    ELSE IF req = "X" THEN FALSE
    ELSE IF req = "IS" THEN TRUE
    ELSE IF req = "IX" THEN held \in {"IS", "IX"}
    ELSE IF req = "S" THEN held \in {"IS", "S"}
    ELSE IF req = "SIX" THEN held = "IS"
    ELSE FALSE

\* lambda compatible of lock_IS_on_table
compatible_IS(req, held) ==
    IF held = "X" THEN FALSE
    ELSE IF req = "X" THEN FALSE
    ELSE IF req = "IS" THEN TRUE
    ELSE TRUE

\* lambda compatible of lock_IX_on_table
compatible_IX(req, held) ==
    IF held = "X" THEN FALSE
    ELSE IF req = "X" THEN FALSE
    ELSE IF req = "IX" THEN held \in {"IS", "IX"}
    ELSE FALSE

\* lambda subsumes of lock_shared_on_record and lock_exclusive_on_record
subsumes_record(held, req) ==
    IF held = "X" THEN TRUE
    ELSE IF held = req THEN TRUE
    ELSE IF held = "S" THEN req = "S"
    ELSE FALSE

\* lambda subsumes of lock_shared_on_table
subsumes_shared_on_table(held, req) ==
    IF held = "X" THEN TRUE
    ELSE IF held = "SIX" THEN req # "X"
    ELSE IF held = req THEN TRUE
    ELSE IF held = "S" THEN req \in {"S", "IS"}
    ELSE IF held = "IX" THEN req \in {"IX", "IS"}
    ELSE IF held = "IS" THEN req = "IS"
    ELSE FALSE

\* lambda subsumes of lock_exclusive_on_table
subsumes_exclusive_on_table(held, req) ==
    IF held = "X" THEN TRUE ELSE held = req

\* lambda subsumes of lock_IS_on_table
subsumes_IS(held, req) ==
    IF held = "X" THEN TRUE
    ELSE IF held = "SIX" THEN TRUE
    ELSE IF held = "S" THEN TRUE
    ELSE IF held = "IX" THEN TRUE
    ELSE held = "IS"

\* lambda subsumes of lock_IX_on_table
subsumes_IX(held, req) ==
    IF held = "X" THEN TRUE
    ELSE IF held = "SIX" THEN TRUE
    ELSE IF held = "IX" THEN TRUE
    ELSE FALSE

\* does a granted lock of mode held make the call of fn return at once
Subsumes(fn, held) ==
    CASE fn \in RecordFns -> subsumes_record(held, ReqMode(fn))
      [] fn = "lock_shared_on_table" -> subsumes_shared_on_table(held, "S")
      [] fn = "lock_exclusive_on_table" -> subsumes_exclusive_on_table(held, "X")
      [] fn = "lock_IS_on_table" -> subsumes_IS(held, "IS")
      [] fn = "lock_IX_on_table" -> subsumes_IX(held, "IX")

\* the compatibility test the grant loop of fn applies to a granted lock of
\* another transaction (the two exclusive functions conflict with any)
Compat(fn, held) ==
    CASE fn \in {"lock_shared_on_record", "lock_shared_on_table"} ->
            compatible("S", held)
      [] fn \in {"lock_exclusive_on_record", "lock_exclusive_on_table"} -> FALSE
      [] fn = "lock_IS_on_table" -> compatible_IS("IS", held)
      [] fn = "lock_IX_on_table" -> compatible_IX("IX", held)

(***************************************************************************)
(* Request queues                                                          *)
(***************************************************************************)
LockRequest(t, m, g) == [txn_id_ |-> t, lock_mode_ |-> m, granted_ |-> g]

\* std::list::erase of the element at position i
Erase(q, i) == [j \in 1..(Len(q) - 1) |-> IF j < i THEN q[j] ELSE q[j + 1]]

\* the requests of q that do not belong to t, in order (the loop of unlock)
RECURSIVE EraseTxn(_, _)
EraseTxn(q, t) ==
    IF q = <<>> THEN <<>>
    ELSE IF Head(q).txn_id_ = t THEN EraseTxn(Tail(q), t)
    ELSE <<Head(q)>> \o EraseTxn(Tail(q), t)

\* can_grant_now without the test against the granted locks
can_grant_now_fifo_only(q, i, fn, t) ==
    \A j \in 1..(i - 1) : q[j].granted_

\* can_grant_now without the test of the requests before the caller's
can_grant_now_compat_only(q, i, fn, t) ==
    \A j \in 1..Len(q) :
        (q[j].granted_ /\ q[j].txn_id_ # t) => Compat(fn, q[j].lock_mode_)

\* lambda can_grant_now: i is the position of the caller's request
can_grant_now(q, i, fn, t) ==
    /\ \A j \in 1..(i - 1) : q[j].granted_
    /\ \A j \in 1..Len(q) :
          (q[j].granted_ /\ q[j].txn_id_ # t) => Compat(fn, q[j].lock_mode_)

\* the wait-die test with the comparison of the ids turned round
must_die_older(q, fn, t) ==
    \E j \in 1..Len(q) :
        /\ q[j].granted_
        /\ q[j].txn_id_ # t
        /\ ~Compat(fn, q[j].lock_mode_)
        /\ t < q[j].txn_id_

\* the wait-die test that never fires
must_die_never(q, fn, t) == FALSE

\* the wait-die test inside the while loop: some granted lock of another
\* transaction conflicts and the caller is the younger one
must_die(q, fn, t) ==
    \E j \in 1..Len(q) :
        /\ q[j].granted_
        /\ q[j].txn_id_ # t
        /\ ~Compat(fn, q[j].lock_mode_)
        /\ t > q[j].txn_id_

\* the caller already holds a lock that is strong enough
already_held(q, fn, t) ==
    \E j \in 1..Len(q) :
        q[j].txn_id_ = t /\ q[j].granted_ /\ Subsumes(fn, q[j].lock_mode_)

\* lock_exclusive_on_record: position of the caller's granted S request, 0 if none
upgrade_pos(q, t) ==
    IF \E j \in 1..Len(q) :
          q[j].txn_id_ = t /\ q[j].granted_ /\ q[j].lock_mode_ = "S"
    THEN CHOOSE j \in 1..Len(q) :
            /\ q[j].txn_id_ = t /\ q[j].granted_ /\ q[j].lock_mode_ = "S"
            /\ \A k \in 1..(j - 1) :
                  ~(q[k].txn_id_ = t /\ q[k].granted_ /\ q[k].lock_mode_ = "S")
    ELSE 0

\* the upgrade that does not look at the other holders
others_hold_not_tested(q, t) == FALSE

\* flag others_hold of lock_exclusive_on_record
others_hold(q, t) == \E j \in 1..Len(q) : q[j].granted_ /\ q[j].txn_id_ # t

\* position of the ungranted request of t in q (there is at most one)
WaitPos(q, t) ==
    CHOOSE j \in 1..Len(q) : q[j].txn_id_ = t /\ ~q[j].granted_

Idle == [st |-> "idle", fn |-> "none", obj |-> Tab, caller |-> "none", rid |-> Tab,
         rel |-> {}]

Waiting(o) == {u \in Txns : pc[u].st = "wait" /\ pc[u].obj = o}

\* the caller commits or aborts a transaction once, while it is in progress
Active(t) == txn_state[t] \in {"GROWING", "SHRINKING"}

\* the transaction object exists; under Spec the caller drops it once it is
\* committed or aborted, under SpecReuse it may go on calling the lock manager
Started(t) == Active(t) \/ reuse

\* the abort reasons a lock function throws
AbortReasons == {"DEADLOCK_PREVENTION", "LOCK_ON_SHRINKING"}

\* the caller of a lock function that threw TransactionAbortException does
\* nothing else with the transaction before it aborts it
Thrown(t) == last[t] \in AbortReasons

(***************************************************************************)
(* The body every lock_* function shares                                   *)
(***************************************************************************)
\* where the thread of t goes when the call of a lock function returns true
Returned(caller, rid) ==
    IF caller = "none" THEN Idle
    ELSE [Idle EXCEPT !.st = "record", !.fn = caller, !.obj = rid]

\* the while loop of a lock function: q holds the caller's request at i
GrantLoop(t, fn, o, q, i, caller, rid) ==
    IF can_grant_now(q, i, fn, t)
    THEN /\ lock_table_' = [lock_table_ EXCEPT ![o] = [q EXCEPT ![i].granted_ = TRUE]]
         /\ lock_set' = [lock_set EXCEPT ![t] = @ \cup {o}]
         /\ pc' = [pc EXCEPT ![t] = Returned(caller, rid)]
         /\ last' = [last EXCEPT ![t] = "granted"]
    ELSE IF must_die(q, fn, t)
    THEN /\ lock_table_' = [lock_table_ EXCEPT ![o] = Erase(q, i)]
         /\ pc' = [pc EXCEPT ![t] = Idle]
         /\ last' = [last EXCEPT ![t] = "DEADLOCK_PREVENTION"]
         /\ UNCHANGED lock_set
    ELSE /\ lock_table_' = [lock_table_ EXCEPT ![o] = q]
         /\ pc' = [pc EXCEPT ![t] = [Idle EXCEPT !.st = "wait", !.fn = fn, !.obj = o,
                                                 !.caller = caller, !.rid = rid]]
         /\ last' = [last EXCEPT ![t] = "blocked"]
         /\ UNCHANGED lock_set

\* the 2PL test left out
shrinking_not_tested(t) == FALSE

\* the 2PL test that opens every lock function
shrinking(t) == txn_state[t] = "SHRINKING"

\* a lock function from its entry to its return, throw or first wait
LockCall(t, fn, o, caller, rid) ==
    /\ woken' = [woken EXCEPT ![t] = FALSE]
    /\ UNCHANGED <<txn_state, unlocked, reuse, datavars, storevars>>
    /\ IF shrinking(t)
       THEN /\ pc' = [pc EXCEPT ![t] = Idle]
            /\ last' = [last EXCEPT ![t] = "LOCK_ON_SHRINKING"]
            /\ UNCHANGED <<lock_table_, lock_set>>
       ELSE LET q == lock_table_[o] IN
            IF already_held(q, fn, t)
            THEN /\ lock_set' = [lock_set EXCEPT ![t] = @ \cup {o}]
                 /\ pc' = [pc EXCEPT ![t] = Returned(caller, rid)]
                 /\ last' = [last EXCEPT ![t] = "granted"]
                 /\ UNCHANGED lock_table_
            ELSE IF fn = "lock_exclusive_on_record" /\ upgrade_pos(q, t) # 0
                    /\ ~others_hold(q, t)
            THEN /\ lock_table_' = [lock_table_ EXCEPT
                                      ![o] = [q EXCEPT ![upgrade_pos(q, t)].lock_mode_ = "X"]]
                 /\ lock_set' = [lock_set EXCEPT ![t] = @ \cup {o}]
                 /\ pc' = [pc EXCEPT ![t] = Returned(caller, rid)]
                 /\ last' = [last EXCEPT ![t] = "granted"]
            ELSE GrantLoop(t, fn, o, Append(q, LockRequest(t, ReqMode(fn), FALSE)),
                           Len(q) + 1, caller, rid)

\* lock_shared_on_table, lock_exclusive_on_table, lock_IS_on_table, lock_IX_on_table
lock_on_table(t, fn) ==
    /\ pc[t].st = "idle" /\ ~Thrown(t) /\ nreq < MaxReq /\ Started(t)
    /\ nreq' = nreq + 1
    /\ LockCall(t, fn, Tab, "none", Tab)

\* a record lock function that goes to the record's queue at once
lock_on_record_no_intention(t, fn, rid) ==
    /\ pc[t].st = "idle" /\ ~Thrown(t) /\ nreq < MaxReq /\ Started(t)
    /\ nreq' = nreq + 1
    /\ LockCall(t, fn, rid, "none", Tab)

\* lock_shared_on_record, lock_exclusive_on_record: the call of the table
\* intention lock that opens the function
lock_on_record(t, fn, rid) ==
    /\ pc[t].st = "idle" /\ ~Thrown(t) /\ nreq < MaxReq /\ Started(t)
    /\ nreq' = nreq + 1
    /\ LockCall(t, IntentionFn(fn), Tab, fn, rid)

\* lock_*_on_record after the intention lock returned: the record's own queue
record_part(t) ==
    /\ pc[t].st = "record"
    /\ UNCHANGED nreq
    /\ LockCall(t, pc[t].fn, pc[t].obj, "none", Tab)

\* queue.cv_.wait(lk) returns, after a notification or spuriously (a
\* condition variable may do so): the state test, then the loop again
wake(t) ==
    /\ pc[t].st = "wait"
    /\ woken' = [woken EXCEPT ![t] = FALSE]
    /\ UNCHANGED <<txn_state, unlocked, reuse, nreq, datavars, storevars>>
    /\ LET o == pc[t].obj
           q == lock_table_[o]
           i == WaitPos(q, t)
       IN IF txn_state[t] = "SHRINKING"
          THEN /\ lock_table_' = [lock_table_ EXCEPT ![o] = Erase(q, i)]
               /\ pc' = [pc EXCEPT ![t] = Idle]
               /\ last' = [last EXCEPT ![t] = "LOCK_ON_SHRINKING"]
               /\ UNCHANGED lock_set
          ELSE GrantLoop(t, pc[t].fn, o, q, i, pc[t].caller, pc[t].rid)

(***************************************************************************)
(* LockManager::unlock                                                     *)
(***************************************************************************)
\* unlock that stops at the first request of t it erases
unlock_queue_first_only(q, t) ==
    IF \E j \in 1..Len(q) : q[j].txn_id_ = t
    THEN Erase(q, CHOOSE j \in 1..Len(q) :
                     q[j].txn_id_ = t /\ \A k \in 1..(j - 1) : q[k].txn_id_ # t)
    ELSE q

\* the queue of o after unlock(t, o)
unlock_queue(q, t) == EraseTxn(q, t)

\* unlock(t, o) found and erased a request
unlock_erased(t, o) == \E j \in 1..Len(lock_table_[o]) : lock_table_[o][j].txn_id_ = t

\* the effect of unlock(t, o) on the lock manager and the transaction
UnlockEffect(t, o) ==
    /\ UNCHANGED <<datavars, storevars>>
    /\ txn_state' = [txn_state EXCEPT ![t] = IF @ = "GROWING" THEN "SHRINKING" ELSE @]
    /\ unlocked' = [unlocked EXCEPT ![t] = TRUE]
    /\ IF unlock_erased(t, o)
       THEN /\ lock_table_' = [lock_table_ EXCEPT ![o] = unlock_queue(@, t)]
            /\ lock_set' = [lock_set EXCEPT ![t] = @ \ {o}]
            /\ woken' = IF unlock_queue(lock_table_[o], t) = <<>> THEN woken
                        ELSE [u \in Txns |-> woken[u] \/ u \in Waiting(o)]
       ELSE UNCHANGED <<lock_table_, lock_set, woken>>

unlock(t, o) ==
    /\ pc[t].st = "idle" /\ ~Thrown(t)
    /\ o \in lock_set[t]
    /\ UnlockEffect(t, o)
    /\ last' = [last EXCEPT ![t] = "none"]
    /\ UNCHANGED <<pc, reuse, nreq>>

(***************************************************************************)
(* The no-wait variant of the lock manager                                 *)
(***************************************************************************)
MaxNwReq == 4       \* lock requests the callers of the no-wait variant make

\* the result of a lock function on the queue q of its object
Outcome(res, q, ins) == [res |-> res, q |-> q, ins |-> ins]

\* the no-wait variant that grants whatever is asked
lock_no_wait_always(q, fn, t) ==
    Outcome("granted", Append(q, LockRequest(t, ReqMode(fn), TRUE)), TRUE)

\* a lock function of the no-wait variant on the queue q, after its state
\* test: return true on a request of the caller that covers the mode, throw
\* on a conflict, otherwise append a granted request. ins: the lock id is
\* inserted into the lock set
lock_no_wait(q, fn, t) ==
    LET mine(ms) == {j \in 1..Len(q) : q[j].txn_id_ = t /\ q[j].lock_mode_ \in ms}
        conflict(ok) == \E j \in 1..Len(q) :
                           q[j].txn_id_ # t /\ q[j].granted_ /\ q[j].lock_mode_ \notin ok
        any_other == \E j \in 1..Len(q) : q[j].txn_id_ # t
        same == Outcome("granted", q, FALSE)
        die == Outcome("DEADLOCK_PREVENTION", q, FALSE)
        grant == Outcome("granted", Append(q, LockRequest(t, ReqMode(fn), TRUE)), TRUE)
    IN CASE fn = "lock_shared_on_record" ->
               IF mine({"S", "X"}) # {} THEN same
               ELSE IF conflict({"IS", "S"}) THEN die ELSE grant
         [] fn = "lock_exclusive_on_record" ->
               IF mine({"S", "X"}) # {}
               THEN LET j == CHOOSE i \in mine({"S", "X"}) :
                                 \A k \in mine({"S", "X"}) : i <= k
                    IN IF q[j].lock_mode_ = "X" THEN same
                       ELSE IF any_other THEN die
                       ELSE Outcome("granted", [q EXCEPT ![j].lock_mode_ = "X"], FALSE)
               ELSE IF any_other THEN die ELSE grant
         [] fn = "lock_shared_on_table" ->
               IF mine({"S", "X", "SIX"}) # {} THEN same
               ELSE IF conflict({"IS", "S"}) THEN die ELSE grant
         [] fn = "lock_exclusive_on_table" ->
               IF mine({"X"}) # {} THEN same
               ELSE IF any_other THEN die ELSE grant
         [] fn = "lock_IS_on_table" ->
               IF mine(LockModes) # {} THEN same
               ELSE IF conflict(LockModes \ {"X"}) THEN die ELSE grant
         [] fn = "lock_IX_on_table" ->
               IF mine({"IX", "X", "SIX"}) # {} THEN same
               ELSE IF conflict({"IS", "IX"}) THEN die ELSE grant

\* a lock function of the wait-die variant on the queue q up to its return,
\* its throw or its first wait (the body of LockCall as a function of q)
lock_wait_die(q, fn, t) ==
    IF already_held(q, fn, t) THEN Outcome("granted", q, TRUE)
    ELSE IF fn = "lock_exclusive_on_record" /\ upgrade_pos(q, t) # 0 /\ ~others_hold(q, t)
    THEN Outcome("granted", [q EXCEPT ![upgrade_pos(q, t)].lock_mode_ = "X"], TRUE)
    ELSE LET r == Append(q, LockRequest(t, ReqMode(fn), FALSE))
             i == Len(q) + 1
         IN IF can_grant_now(r, i, fn, t)
            THEN Outcome("granted", [r EXCEPT ![i].granted_ = TRUE], TRUE)
            ELSE IF must_die(r, fn, t) THEN Outcome("DEADLOCK_PREVENTION", q, FALSE)
            ELSE Outcome("blocked", r, FALSE)

\* a whole lock request of t on o by the variant lock(_, _, _): the state
\* test, for a record function the intention lock on the table, then the
\* queue of o. The result is the reason, the lock table and the lock set of t.
lock_request_by(lock(_, _, _), lt, ls, st, t, fn, o) ==
    IF st = "SHRINKING" THEN [res |-> "LOCK_ON_SHRINKING", lt |-> lt, ls |-> ls]
    ELSE IF fn \in TableFns
    THEN LET r == lock(lt[Tab], fn, t)
         IN [res |-> r.res, lt |-> [lt EXCEPT ![Tab] = r.q],
             ls |-> IF r.ins THEN ls \cup {Tab} ELSE ls]
    ELSE LET i == lock(lt[Tab], IntentionFn(fn), t)
             lt1 == [lt EXCEPT ![Tab] = i.q]
             ls1 == IF i.ins THEN ls \cup {Tab} ELSE ls
         IN IF i.res # "granted" THEN [res |-> i.res, lt |-> lt1, ls |-> ls1]
            ELSE LET r == lock(lt1[o], fn, t)
                 IN [res |-> r.res, lt |-> [lt1 EXCEPT ![o] = r.q],
                     ls |-> IF r.ins THEN ls1 \cup {o} ELSE ls1]

\* the objects a lock function can be called on
FnIds(fn) == IF fn \in TableFns THEN {Tab} ELSE Rids

\* a caller of the no-wait variant calls fn on o
lock_call_no_wait(t, fn, o) ==
    /\ Active(t) /\ ~Thrown(t) /\ nreq < MaxNwReq
    /\ nreq' = nreq + 1
    /\ LET r == lock_request_by(lock_no_wait, lock_table_, lock_set[t], txn_state[t],
                                t, fn, o)
       IN /\ lock_table_' = r.lt
          /\ lock_set' = [lock_set EXCEPT ![t] = r.ls]
          /\ last' = [last EXCEPT ![t] = r.res]
    /\ UNCHANGED <<txn_state, pc, woken, unlocked, reuse, datavars, storevars>>

\* unlock of the no-wait variant: nobody waits, nobody is notified
unlock_no_wait(t, o) ==
    /\ ~Thrown(t) /\ o \in lock_set[t]
    /\ txn_state' = [txn_state EXCEPT ![t] = IF @ = "GROWING" THEN "SHRINKING" ELSE @]
    /\ unlocked' = [unlocked EXCEPT ![t] = TRUE]
    /\ lock_table_' = [lock_table_ EXCEPT ![o] = EraseTxn(@, t)]
    /\ lock_set' = [lock_set EXCEPT ![t] = @ \ {o}]
    /\ last' = [last EXCEPT ![t] = "none"]
    /\ UNCHANGED <<pc, woken, reuse, nreq, datavars, storevars>>

(***************************************************************************)
(* The record heap (RmFileHandle) of the table                             *)
(***************************************************************************)
RM_NO_PAGE == -1
RM_FIRST_RECORD_PAGE == 1

Keys == 1..NumKeys
SlotNos == 0..(num_records_per_page - 1)

Rid(p, s) == [page_no |-> p, slot_no |-> s]

\* the file right after it is created: the header page only
EmptyFile ==
    [file_hdr |-> [first_free_page_no |-> RM_NO_PAGE, num_pages |-> RM_FIRST_RECORD_PAGE],
     pages |-> <<>>]

\* the slot is in range and its bitmap bit is set (the test that get_record,
\* update_record and delete_record make before they touch the slot)
is_set(f, rid) ==
    /\ rid.page_no \in RM_FIRST_RECORD_PAGE..(f.file_hdr.num_pages - 1)
    /\ rid.slot_no \in SlotNos
    /\ f.pages[rid.page_no].bitmap[rid.slot_no]

\* the payload get_record returns for an occupied slot
get_record(f, rid) == f.pages[rid.page_no].slots[rid.slot_no]

\* a new page at the end of the file becomes the head of the free list
create_new_page_handle(f) ==
    [file_hdr |-> [first_free_page_no |-> f.file_hdr.num_pages,
                   num_pages |-> f.file_hdr.num_pages + 1],
     pages |-> Append(f.pages,
                      [bitmap |-> [s \in SlotNos |-> FALSE],
                       slots |-> [s \in SlotNos |-> 0],
                       num_records |-> 0,
                       next_free_page_no |-> f.file_hdr.first_free_page_no])]

\* the free list not consulted: every handle is one of a new page
create_page_handle_new(f) == create_new_page_handle(f)

\* the file after create_page_handle; the handle is its first free page
create_page_handle(f) ==
    IF f.file_hdr.first_free_page_no # RM_NO_PAGE THEN f ELSE create_new_page_handle(f)

\* the bitmap not consulted: the record goes to slot 0 of the first free page
insert_record_slot0(f, buf) ==
    LET g == create_page_handle(f)
        p == g.file_hdr.first_free_page_no
    IN [fh |-> [g EXCEPT !.pages[p].bitmap[0] = TRUE,
                         !.pages[p].slots[0] = buf,
                         !.pages[p].num_records =
                             Cardinality({0} \cup {s \in SlotNos : g.pages[p].bitmap[s]})],
        rid |-> Rid(p, 0)]

\* insert_record(buf): the file afterwards and the Rid returned
insert_record(f, buf) ==
    LET g == create_page_handle(f)
        p == g.file_hdr.first_free_page_no
        pg == g.pages[p]
        s == CHOOSE i \in SlotNos :
                ~pg.bitmap[i] /\ \A j \in SlotNos : j < i => pg.bitmap[j]
        full == pg.num_records + 1 = num_records_per_page
    IN [fh |-> [file_hdr |-> [g.file_hdr EXCEPT !.first_free_page_no =
                                  IF full THEN pg.next_free_page_no ELSE @],
                pages |-> [g.pages EXCEPT ![p] =
                              [pg EXCEPT !.bitmap[s] = TRUE,
                                         !.slots[s] = buf,
                                         !.num_records = @ + 1,
                                         !.next_free_page_no =
                                             IF full THEN RM_NO_PAGE ELSE @]]],
        rid |-> Rid(p, s)]

\* delete_record of an occupied slot; a page that was full goes back to the
\* head of the free list (release_page_handle)
delete_record(f, rid) ==
    LET p == rid.page_no
        pg == [f.pages[p] EXCEPT !.bitmap[rid.slot_no] = FALSE,
                                 !.slots[rid.slot_no] = 0,
                                 !.num_records = @ - 1]
    IN IF pg.num_records = num_records_per_page - 1
       THEN [file_hdr |-> [f.file_hdr EXCEPT !.first_free_page_no = p],
             pages |-> [f.pages EXCEPT ![p] =
                           [pg EXCEPT !.next_free_page_no =
                                          f.file_hdr.first_free_page_no]]]
       ELSE [f EXCEPT !.pages[p] = pg]

\* update_record of an occupied slot
update_record(f, rid, buf) ==
    [f EXCEPT !.pages[rid.page_no].slots[rid.slot_no] = buf]

(***************************************************************************)
(* The index (IxIndexHandle): unique keys, each with the Rid of its record *)
(***************************************************************************)
\* a key that is already in the index is not inserted again
insert_entry(ix, key, value) ==
    IF key \in DOMAIN ix THEN ix
    ELSE [k \in DOMAIN ix \cup {key} |-> IF k = key THEN value ELSE ix[k]]

\* a key that is not in the index: nothing happens
delete_entry(ix, key) == [k \in DOMAIN ix \ {key} |-> ix[k]]

(***************************************************************************)
(* The undo loop of TransactionManager::abort                              *)
(***************************************************************************)
WriteRecord(wtype, rid, rec) == [wtype_ |-> wtype, rid_ |-> rid, record_ |-> rec]

\* the UPDATE_TUPLE branch: get_record throws RecordNotFoundError on a free slot
undo_update(wr, d) ==
    IF ~is_set(d.fh, wr.rid_) THEN [d EXCEPT !.ok = FALSE]
    ELSE [fh |-> update_record(d.fh, wr.rid_, wr.record_),
          ih |-> insert_entry(delete_entry(d.ih, get_record(d.fh, wr.rid_)),
                              wr.record_, wr.rid_),
          ok |-> TRUE]

\* one turn of the loop on d = [fh, ih, ok]; ok is FALSE when the turn threw
undo_one(wr, d) ==
    CASE wr.wtype_ = "INSERT_TUPLE" ->
            IF is_set(d.fh, wr.rid_)
            THEN [fh |-> delete_record(d.fh, wr.rid_),
                  ih |-> delete_entry(d.ih, wr.record_), ok |-> TRUE]
            ELSE [fh |-> d.fh, ih |-> delete_entry(d.ih, wr.record_), ok |-> FALSE]
      [] wr.wtype_ = "DELETE_TUPLE" ->
            LET r == insert_record(d.fh, wr.record_) IN
            [fh |-> r.fh, ih |-> insert_entry(d.ih, wr.record_, r.rid), ok |-> TRUE]
      [] wr.wtype_ = "UPDATE_TUPLE" -> undo_update(wr, d)

\* the whole loop: the write set from the back; ws is what is left of it
RECURSIVE undo_all(_, _)
undo_all(ws, d) ==
    IF ws = <<>> THEN [fh |-> d.fh, ih |-> d.ih, ok |-> TRUE, ws |-> <<>>]
    ELSE LET r == undo_one(ws[Len(ws)], d)
             rest == SubSeq(ws, 1, Len(ws) - 1)
         IN IF r.ok THEN undo_all(rest, r)
            ELSE [fh |-> r.fh, ih |-> r.ih, ok |-> FALSE, ws |-> rest]

(***************************************************************************)
(* TransactionManager::commit and the lock release of abort                *)
(***************************************************************************)
\* commit up to the copy of the lock set
commit_begin(t) ==
    /\ Active(t) /\ pc[t].st = "idle" /\ ~Thrown(t)
    /\ txn_state' = [txn_state EXCEPT ![t] = "SHRINKING"]
    /\ write_set' = [write_set EXCEPT ![t] = <<>>]
    /\ pc' = [pc EXCEPT ![t] = [Idle EXCEPT !.st = "commit", !.rel = lock_set[t]]]
    /\ UNCHANGED <<lock_set, lock_table_, woken, last, unlocked, reuse, nreq, fh, ih,
                   storevars>>

\* one turn of the loop over locks_to_release (of commit or of abort); the
\* order is the iteration order of an unordered_set
release_one(t, o) ==
    /\ pc[t].st \in {"commit", "abort"}
    /\ o \in pc[t].rel
    /\ UnlockEffect(t, o)
    /\ pc' = [pc EXCEPT ![t].rel = @ \ {o}]
    /\ UNCHANGED <<last, reuse, nreq>>

\* commit after the loop: lock_set->clear(), state COMMITTED
commit_end(t) ==
    /\ pc[t].st = "commit" /\ pc[t].rel = {}
    /\ lock_set' = [lock_set EXCEPT ![t] = {}]
    /\ txn_state' = [txn_state EXCEPT ![t] = "COMMITTED"]
    /\ pc' = [pc EXCEPT ![t] = Idle]
    /\ last' = [last EXCEPT ![t] = "committed"]
    /\ UNCHANGED <<lock_table_, woken, unlocked, reuse, nreq, datavars, storevars>>

\* abort up to the copy of the lock set: the undo loop, then SHRINKING; a
\* turn of the loop that throws ends abort there. The caller aborts after a
\* lock function threw, or to roll back what the transaction wrote
abort_begin(t) ==
    /\ Active(t) /\ pc[t].st = "idle"
    /\ Thrown(t) \/ write_set[t] # <<>>
    /\ LET u == undo_all(write_set[t], [fh |-> fh, ih |-> ih, ok |-> TRUE]) IN
       /\ fh' = u.fh
       /\ ih' = u.ih
       /\ write_set' = [write_set EXCEPT ![t] = u.ws]
       /\ IF u.ok
          THEN /\ txn_state' = [txn_state EXCEPT ![t] = "SHRINKING"]
               /\ pc' = [pc EXCEPT ![t] = [Idle EXCEPT !.st = "abort",
                                                       !.rel = lock_set[t]]]
               /\ UNCHANGED last
          ELSE /\ last' = [last EXCEPT ![t] = "RecordNotFoundError"]
               /\ UNCHANGED <<txn_state, pc>>
    /\ UNCHANGED <<lock_set, lock_table_, woken, unlocked, reuse, nreq, storevars>>

\* abort after the loop: lock_set->clear(), state ABORTED
abort_end(t) ==
    /\ pc[t].st = "abort" /\ pc[t].rel = {}
    /\ lock_set' = [lock_set EXCEPT ![t] = {}]
    /\ txn_state' = [txn_state EXCEPT ![t] = "ABORTED"]
    /\ pc' = [pc EXCEPT ![t] = Idle]
    /\ last' = [last EXCEPT ![t] = "aborted"]
    /\ UNCHANGED <<lock_table_, woken, unlocked, reuse, nreq, datavars, storevars>>

(***************************************************************************)
(* The executors that run the statements of a transaction                  *)
(***************************************************************************)
Workers == 1..NumWorkers

\* the Rids of the file
AllRids(f) ==
    {Rid(p, s) : p \in RM_FIRST_RECORD_PAGE..(f.file_hdr.num_pages - 1), s \in SlotNos}

\* the Rids a statement may name
StatementRids == {Rid(p, s) : p \in RM_FIRST_RECORD_PAGE..MaxPages, s \in SlotNos}

\* a statement of transaction t may start
MayRun(t) == pc[t].st = "idle" /\ Active(t) /\ ~Thrown(t) /\ nreq < MaxReq

\* SeqScanExecutor::beginTuple in an explicit transaction (txn_mode_ is
\* true): the table S lock, then the scan reads the records of the table
seq_scan(t) ==
    /\ MayRun(t)
    /\ nreq' = nreq + 1
    /\ LockCall(t, "lock_shared_on_table", Tab, "none", Tab)

\* UpdateExecutor::Next for rids_ = <<rid>> (a position the statement's scan
\* found) and a SET clause that writes key into the indexed column
update_tuple(t, rid, key) ==
    /\ MayRun(t)
    /\ is_set(fh, rid)
    /\ LET rec == get_record(fh, rid) IN
       /\ write_set' = [write_set EXCEPT
                           ![t] = Append(@, WriteRecord("UPDATE_TUPLE", rid, rec))]
       /\ fh' = update_record(fh, rid, key)
       /\ ih' = insert_entry(delete_entry(ih, rec), key, rid)
    /\ nreq' = nreq + 1
    /\ last' = [last EXCEPT ![t] = "done"]
    /\ UNCHANGED <<txn_state, lock_set, lock_table_, pc, woken, unlocked, reuse,
                   storevars>>

\* the insert statement: a record with a key that is not in the table goes
\* to the heap and to the index, with an INSERT_TUPLE write record
insert_tuple(t, key) ==
    /\ MayRun(t)
    /\ key \notin DOMAIN ih
    /\ fh.file_hdr.first_free_page_no # RM_NO_PAGE \/ fh.file_hdr.num_pages < MaxPages
    /\ LET r == insert_record(fh, key) IN
       /\ fh' = r.fh
       /\ ih' = insert_entry(ih, key, r.rid)
       /\ write_set' = [write_set EXCEPT
                           ![t] = Append(@, WriteRecord("INSERT_TUPLE", r.rid, key))]
    /\ nreq' = nreq + 1
    /\ last' = [last EXCEPT ![t] = "done"]
    /\ UNCHANGED <<txn_state, lock_set, lock_table_, pc, woken, unlocked, reuse,
                   storevars>>

\* the delete statement: a DELETE_TUPLE write record with the record as it
\* was, then the index entry and the record go
delete_tuple(t, rid) ==
    /\ MayRun(t)
    /\ is_set(fh, rid)
    /\ LET rec == get_record(fh, rid) IN
       /\ write_set' = [write_set EXCEPT
                           ![t] = Append(@, WriteRecord("DELETE_TUPLE", rid, rec))]
       /\ ih' = delete_entry(ih, rec)
       /\ fh' = delete_record(fh, rid)
    /\ nreq' = nreq + 1
    /\ last' = [last EXCEPT ![t] = "done"]
    /\ UNCHANGED <<txn_state, lock_set, lock_table_, pc, woken, unlocked, reuse,
                   storevars>>

(***************************************************************************)
(* The B+ tree: a node page (IxNodeHandle)                                 *)
(***************************************************************************)
btree_order_ == 3       \* IxFileHdr::btree_order_
NumIxKeys == 10         \* keys the callers insert into the tree and delete
NumVals == 2            \* Rids a key is inserted with
MaxIxPages == 11        \* num_pages_ up to which the tree grows
MaxIxOps == 3           \* calls a caller makes on an index that was loaded
MaxPinOps == 2          \* calls a caller of both files makes
NumDrainKeys == 8       \* keys a caller inserts into a new index and deletes again
NumOrderKeys == 8       \* keys a caller inserts into a new index of a chosen order
MaxPin == 2             \* pins a page collects before the callers stop

IX_NO_PAGE == -1
INVALID_PAGE_ID == -1
IX_LEAF_HEADER_PAGE == 1
IX_INIT_ROOT_PAGE == 2
IX_INIT_NUM_PAGES == 3

IxKeys == 1..NumIxKeys
Vals == 1..NumVals

\* a node that holds no more than btree_order_ keys at any time
get_max_size_is_order(d) == d.hdr.btree_order_

get_max_size(d) == d.hdr.btree_order_ + 1
get_min_size(d) == get_max_size(d) \div 2

\* a node page: page_hdr (is_leaf, parent, prev_leaf, next_leaf; num_key is
\* the length of keys), the keys and the rids (the child page numbers of an
\* internal node). Positions are counted from 0 as in the code.
IxNode(leaf, parent, prev, next, keys, rids) ==
    [is_leaf |-> leaf, parent |-> parent, prev_leaf |-> prev, next_leaf |-> next,
     keys |-> keys, rids |-> rids]

\* a page as reset_memory leaves it
ZeroNode == IxNode(FALSE, 0, 0, 0, <<>>, <<>>)

get_size(n) == Len(n.keys)

is_root_page(n) == n.parent = INVALID_PAGE_ID

\* IxNodeHandle::lower_bound (binary_search is false): the first position
\* whose key is >= target, num_key if there is none
node_lower_bound(n, target) ==
    IF \E i \in 1..Len(n.keys) : n.keys[i] >= target
    THEN (CHOOSE i \in 1..Len(n.keys) :
             n.keys[i] >= target /\ \A j \in 1..(i - 1) : n.keys[j] < target) - 1
    ELSE Len(n.keys)

\* IxNodeHandle::upper_bound: the scan starts at position 1
node_upper_bound(n, target) ==
    IF \E i \in 2..Len(n.keys) : n.keys[i] > target
    THEN (CHOOSE i \in 2..Len(n.keys) :
             n.keys[i] > target /\ \A j \in 2..(i - 1) : n.keys[j] <= target) - 1
    ELSE IF Len(n.keys) = 0 THEN 1 ELSE Len(n.keys)

\* IxNodeHandle::leaf_lookup
leaf_lookup(n, key) ==
    LET pos == node_lower_bound(n, key) IN
    IF pos < get_size(n) /\ n.keys[pos + 1] = key
    THEN [found |-> TRUE, value |-> n.rids[pos + 1]]
    ELSE [found |-> FALSE, value |-> 0]

\* IxNodeHandle::internal_lookup: value_at(upper_bound(key) - 1)
internal_lookup(n, key) == n.rids[node_upper_bound(n, key)]

\* IxNodeHandle::insert_pairs: n pairs go in at position pos
insert_pairs(n, pos, ks, rs) ==
    [n EXCEPT !.keys = SubSeq(@, 1, pos) \o ks \o SubSeq(@, pos + 1, Len(@)),
              !.rids = SubSeq(@, 1, pos) \o rs \o SubSeq(@, pos + 1, Len(@))]

\* a key that is in the node takes the new rid
node_insert_overwrites(n, key, value) ==
    LET pos == node_lower_bound(n, key) IN
    IF pos < get_size(n) /\ n.keys[pos + 1] = key THEN [n EXCEPT !.rids[pos + 1] = value]
    ELSE insert_pairs(n, pos, <<key>>, <<value>>)

\* IxNodeHandle::insert: a key that is in the node is not inserted again
node_insert(n, key, value) ==
    LET pos == node_lower_bound(n, key) IN
    IF pos < get_size(n) /\ n.keys[pos + 1] = key THEN n
    ELSE insert_pairs(n, pos, <<key>>, <<value>>)

\* IxNodeHandle::erase_pair
erase_pair(n, pos) ==
    [n EXCEPT !.keys = SubSeq(@, 1, pos) \o SubSeq(@, pos + 2, Len(@)),
              !.rids = SubSeq(@, 1, pos) \o SubSeq(@, pos + 2, Len(@))]

\* IxNodeHandle::remove
node_remove(n, key) ==
    LET pos == node_lower_bound(n, key) IN
    IF pos >= get_size(n) \/ n.keys[pos + 1] # key THEN n ELSE erase_pair(n, pos)

\* IxNodeHandle::find_child: the position of the child page in the node
find_child(n, child) ==
    (CHOOSE i \in 1..Len(n.rids) :
        n.rids[i] = child /\ \A j \in 1..(i - 1) : n.rids[j] # child) - 1

(***************************************************************************)
(* The B+ tree: the index file (IxIndexHandle). d is the file: its header  *)
(* hdr, its node pages nodes and the pin count pin of every page           *)
(***************************************************************************)
\* the file IxManager::create_index writes: the leaf list sentinel on page
\* 1 and an empty leaf as the root on page 2
EmptyIndex ==
    [hdr |-> [root_page_ |-> IX_INIT_ROOT_PAGE, first_leaf_ |-> IX_INIT_ROOT_PAGE,
              last_leaf_ |-> IX_INIT_ROOT_PAGE, num_pages_ |-> IX_INIT_NUM_PAGES,
              btree_order_ |-> btree_order_],
     nodes |-> (IX_LEAF_HEADER_PAGE :>
                    IxNode(TRUE, IX_NO_PAGE, IX_INIT_ROOT_PAGE, IX_INIT_ROOT_PAGE, <<>>, <<>>))
               @@ (IX_INIT_ROOT_PAGE :>
                    IxNode(TRUE, IX_NO_PAGE, IX_LEAF_HEADER_PAGE, IX_LEAF_HEADER_PAGE,
                           <<>>, <<>>)),
     pin |-> (IX_LEAF_HEADER_PAGE :> 0) @@ (IX_INIT_ROOT_PAGE :> 0),
     dirty |-> {}, refused |-> 0]

\* IxIndexHandle::fetch_node: fetch_page pins the page
fetch_node(d, p) == [d EXCEPT !.pin[p] = @ + 1]

\* buffer_pool_manager_->unpin_page of a node page: a page without pins is
\* refused and left alone, otherwise one pin is taken and the page is marked
\* when is_dirty is set
ix_unpin_page(d, p, is_dirty) ==
    IF d.pin[p] > 0
    THEN [d EXCEPT !.pin[p] = @ - 1, !.dirty = IF is_dirty THEN @ \cup {p} ELSE @]
    ELSE [d EXCEPT !.refused = @ + 1]

\* unpin_page(.., true) of a node page
unpin_node(d, p) == ix_unpin_page(d, p, TRUE)

\* the file as a call finds it: dirty and refused record what the call in
\* progress does, the pages it unpins with is_dirty and the number of its
\* unpin_page calls that return false
at_call(d) == [d EXCEPT !.dirty = {}, !.refused = 0]

\* IxIndexHandle::create_node: new_page gives page number num_pages_, zeroed
\* and pinned
create_node(d) ==
    LET p == d.hdr.num_pages_ IN
    [hdr |-> [d.hdr EXCEPT !.num_pages_ = @ + 1],
     nodes |-> (p :> ZeroNode) @@ d.nodes,
     pin |-> (p :> 1) @@ d.pin,
     dirty |-> d.dirty, refused |-> d.refused]

\* the parent of the child is left as it was
maintain_child_skipped(d, p, child_idx) == d

\* IxIndexHandle::maintain_child
maintain_child(d, p, child_idx) ==
    IF d.nodes[p].is_leaf THEN d
    ELSE LET c == d.nodes[p].rids[child_idx + 1] IN
         unpin_node([fetch_node(d, c) EXCEPT !.nodes[c].parent = p], c)

\* the loops over maintain_child for the positions from..to
RECURSIVE maintain_children(_, _, _, _)
maintain_children(d, p, from, to) ==
    IF from > to THEN d
    ELSE maintain_children(maintain_child(d, p, from), p, from + 1, to)

\* IxIndexHandle::maintain_parent
RECURSIVE maintain_parent(_, _)
maintain_parent(d, p) ==
    IF d.nodes[p].parent = IX_NO_PAGE THEN d
    ELSE LET pp == d.nodes[p].parent
             d1 == fetch_node(d, pp)
             rank == find_child(d1.nodes[pp], p)
             child_first_key == d.nodes[p].keys[1]
         IN IF d1.nodes[pp].keys[rank + 1] = child_first_key THEN unpin_node(d1, pp)
            ELSE maintain_parent(
                    unpin_node([d1 EXCEPT !.nodes[pp].keys[rank + 1] = child_first_key], pp),
                    pp)

\* the leaf left linked between its neighbours
erase_leaf_skipped(d, leaf) == d

\* the leaf taken out of the next_leaf links only
erase_leaf_next_only(d, leaf) ==
    LET prev == d.nodes[leaf].prev_leaf IN
    unpin_node([fetch_node(d, prev) EXCEPT
                   !.nodes[prev].next_leaf = d.nodes[leaf].next_leaf], prev)

\* IxIndexHandle::erase_leaf
erase_leaf(d, leaf) ==
    LET prev == d.nodes[leaf].prev_leaf
        d1 == unpin_node([fetch_node(d, prev) EXCEPT
                             !.nodes[prev].next_leaf = d.nodes[leaf].next_leaf], prev)
        next == d1.nodes[leaf].next_leaf
    IN unpin_node([fetch_node(d1, next) EXCEPT
                      !.nodes[next].prev_leaf = d1.nodes[leaf].prev_leaf], next)

\* IxIndexHandle::find_leaf_page: the loop from a pinned node p down to a leaf
RECURSIVE descend(_, _, _)
descend(d, p, key) ==
    IF d.nodes[p].is_leaf THEN [d |-> d, leaf |-> p]
    ELSE LET c == internal_lookup(d.nodes[p], key) IN
         descend(fetch_node(ix_unpin_page(d, p, FALSE), c), c, key)

\* IxIndexHandle::find_leaf_page: the leaf stays pinned
find_leaf_page(d, key) ==
    descend(fetch_node(d, d.hdr.root_page_), d.hdr.root_page_, key)

\* a split that moves one pair only to the new page
split_one_pair(d, p) ==
    LET np == d.hdr.num_pages_
        node == d.nodes[p]
        old_size == get_size(node)
        d1 == [create_node(d) EXCEPT
                  !.nodes[np] = IxNode(node.is_leaf, node.parent, 0, 0,
                                       SubSeq(node.keys, old_size, old_size),
                                       SubSeq(node.rids, old_size, old_size)),
                  !.nodes[p].keys = SubSeq(@, 1, old_size - 1),
                  !.nodes[p].rids = SubSeq(@, 1, old_size - 1)]
    IN IF node.is_leaf
       THEN LET d2 == [d1 EXCEPT !.nodes[np].next_leaf = node.next_leaf,
                                 !.nodes[np].prev_leaf = p]
                next == node.next_leaf
                d3 == unpin_node([fetch_node(d2, next) EXCEPT
                                     !.nodes[next].prev_leaf = np], next)
            IN [d3 EXCEPT !.nodes[p].next_leaf = np,
                          !.hdr.last_leaf_ = IF @ = p THEN np ELSE @]
       ELSE maintain_children(d1, np, 0, 0)

\* IxIndexHandle::split: the right half of node p goes to a new page (its
\* number is num_pages_ as it was); both stay pinned
split(d, p) ==
    LET np == d.hdr.num_pages_
        node == d.nodes[p]
        old_size == get_size(node)
        move_cnt == old_size \div 2
        d1 == [create_node(d) EXCEPT
                  !.nodes[np] = IxNode(node.is_leaf, node.parent, 0, 0,
                                       SubSeq(node.keys, old_size - move_cnt + 1, old_size),
                                       SubSeq(node.rids, old_size - move_cnt + 1, old_size)),
                  !.nodes[p].keys = SubSeq(@, 1, old_size - move_cnt),
                  !.nodes[p].rids = SubSeq(@, 1, old_size - move_cnt)]
    IN IF node.is_leaf
       THEN LET d2 == [d1 EXCEPT !.nodes[np].next_leaf = node.next_leaf,
                                 !.nodes[np].prev_leaf = p]
                next == node.next_leaf
                d3 == IF next # IX_NO_PAGE
                      THEN unpin_node([fetch_node(d2, next) EXCEPT
                                          !.nodes[next].prev_leaf = np], next)
                      ELSE d2
            IN [d3 EXCEPT !.nodes[p].next_leaf = np,
                          !.hdr.last_leaf_ = IF @ = p THEN np ELSE @]
       ELSE maintain_children(d1, np, 0, move_cnt - 1)

\* IxIndexHandle::insert_into_parent
RECURSIVE insert_into_parent(_, _, _, _)
insert_into_parent(d, old_node, key, new_node) ==
    IF is_root_page(d.nodes[old_node])
    THEN LET root == d.hdr.num_pages_ IN
         unpin_node([create_node(d) EXCEPT
                        !.nodes[root] = IxNode(FALSE, IX_NO_PAGE, 0, 0,
                                               <<d.nodes[old_node].keys[1], key>>,
                                               <<old_node, new_node>>),
                        !.nodes[old_node].parent = root,
                        !.nodes[new_node].parent = root,
                        !.hdr.root_page_ = root], root)
    ELSE LET parent == d.nodes[old_node].parent
             d1 == fetch_node(d, parent)
             index == find_child(d1.nodes[parent], old_node)
             d2 == [d1 EXCEPT !.nodes[new_node].parent = parent,
                              !.nodes[parent] = insert_pairs(@, index + 1, <<key>>,
                                                             <<new_node>>)]
         IN IF get_size(d2.nodes[parent]) >= get_max_size(d)
            THEN LET new_parent == d2.hdr.num_pages_
                     d3 == split(d2, parent)
                     d4 == insert_into_parent(d3, parent, d3.nodes[new_parent].keys[1],
                                              new_parent)
                 IN unpin_node(unpin_node(d4, new_parent), parent)
            ELSE unpin_node(d2, parent)

\* IxIndexHandle::insert_entry on a tree that has a root
ix_insert_entry(d, key, value) ==
    LET f == find_leaf_page(d, key)
        leaf == f.leaf
        d1 == [f.d EXCEPT !.nodes[leaf] = node_insert(@, key, value)]
    IN IF get_size(d1.nodes[leaf]) = get_size(f.d.nodes[leaf])
       THEN ix_unpin_page(d1, leaf, FALSE)
       ELSE IF get_size(d1.nodes[leaf]) < get_max_size(d) THEN unpin_node(d1, leaf)
       ELSE LET new_leaf == d1.hdr.num_pages_
                d2 == split(d1, leaf)
                d3 == insert_into_parent(d2, leaf, d2.nodes[new_leaf].keys[1], new_leaf)
                d4 == [d3 EXCEPT !.hdr.last_leaf_ = IF @ = leaf THEN new_leaf ELSE @]
            IN unpin_node(unpin_node(d4, leaf), new_leaf)

\* the root leaf without entries stays the root
adjust_root_keeps_leaf(d, old_root_node) ==
    LET n == d.nodes[old_root_node] IN
    IF ~n.is_leaf /\ get_size(n) = 1
    THEN LET child == n.rids[1]
             d1 == [d EXCEPT !.nodes[old_root_node] = erase_pair(@, 0),
                             !.hdr.root_page_ = child]
         IN unpin_node([fetch_node(d1, child) EXCEPT
                           !.nodes[child].parent = INVALID_PAGE_ID], child)
    ELSE d

\* IxIndexHandle::adjust_root
adjust_root(d, old_root_node) ==
    LET n == d.nodes[old_root_node] IN
    IF ~n.is_leaf /\ get_size(n) = 1
    THEN LET child == n.rids[1]
             d1 == [d EXCEPT !.nodes[old_root_node] = erase_pair(@, 0),
                             !.hdr.root_page_ = child]
         IN unpin_node([fetch_node(d1, child) EXCEPT
                           !.nodes[child].parent = INVALID_PAGE_ID], child)
    ELSE IF n.is_leaf /\ get_size(n) = 0
    THEN [d EXCEPT !.hdr.root_page_ = IX_NO_PAGE,
                   !.hdr.first_leaf_ = IX_LEAF_HEADER_PAGE,
                   !.hdr.last_leaf_ = IX_LEAF_HEADER_PAGE]
    ELSE d

\* the pair is moved between the siblings, the key of the parent is left
\* as it was
redistribute_keeps_key(d, neighbor_node, node, parent, index) ==
    LET nb == d.nodes[neighbor_node]
        from == IF index = 0 THEN 0 ELSE get_size(nb) - 1
        d1 == [d EXCEPT
                  !.nodes[node] = insert_pairs(@, IF index = 0 THEN get_size(@) ELSE 0,
                                               <<nb.keys[from + 1]>>, <<nb.rids[from + 1]>>),
                  !.nodes[neighbor_node] = erase_pair(@, from)]
    IN IF ~d1.nodes[node].is_leaf
       THEN maintain_child(d1, node, IF index = 0 THEN get_size(d1.nodes[node]) - 1 ELSE 0)
       ELSE d1

\* IxIndexHandle::redistribute: index is the position of node in parent
redistribute(d, neighbor_node, node, parent, index) ==
    IF index = 0
    THEN LET nb == d.nodes[neighbor_node]
             d1 == [d EXCEPT
                       !.nodes[node] = insert_pairs(@, get_size(@), <<nb.keys[1]>>,
                                                    <<nb.rids[1]>>),
                       !.nodes[neighbor_node] = erase_pair(@, 0)]
             d2 == IF ~d1.nodes[node].is_leaf
                   THEN maintain_child(d1, node, get_size(d1.nodes[node]) - 1)
                   ELSE d1
         IN IF get_size(d2.nodes[neighbor_node]) > 0
            THEN [d2 EXCEPT !.nodes[parent].keys[2] = d2.nodes[neighbor_node].keys[1]]
            ELSE d2
    ELSE LET nb == d.nodes[neighbor_node]
             last_pos == get_size(nb) - 1
             d1 == [d EXCEPT
                       !.nodes[node] = insert_pairs(@, 0, <<nb.keys[last_pos + 1]>>,
                                                    <<nb.rids[last_pos + 1]>>),
                       !.nodes[neighbor_node] = erase_pair(@, last_pos)]
             d2 == IF ~d1.nodes[node].is_leaf THEN maintain_child(d1, node, 0) ELSE d1
         IN IF get_size(d2.nodes[node]) > 0
            THEN [d2 EXCEPT !.nodes[parent].keys[index + 1] = d2.nodes[node].keys[1]]
            ELSE d2

RECURSIVE coalesce_or_redistribute(_, _)
RECURSIVE coalesce(_, _, _, _, _)

\* IxIndexHandle::coalesce: with index 0 the two handles are swapped, so
\* that the right node goes into the left one
coalesce(d, neighbor_node, node, parent, index) ==
    LET left == IF index = 0 THEN node ELSE neighbor_node
        right == IF index = 0 THEN neighbor_node ELSE node
        idx == IF index = 0 THEN 1 ELSE index
        left_old_size == get_size(d.nodes[left])
        move_cnt == get_size(d.nodes[right])
        d1 == [d EXCEPT !.nodes[left] = insert_pairs(@, left_old_size,
                                                     d.nodes[right].keys,
                                                     d.nodes[right].rids)]
        d2 == IF ~d1.nodes[left].is_leaf
              THEN maintain_children(d1, left, left_old_size, left_old_size + move_cnt - 1)
              ELSE erase_leaf(
                      [d1 EXCEPT
                          !.hdr.last_leaf_ = IF right = @ THEN left ELSE @,
                          !.hdr.first_leaf_ = IF right = @ THEN d1.nodes[right].next_leaf
                                              ELSE @],
                      right)
        d3 == [d2 EXCEPT !.nodes[parent] = erase_pair(@, idx)]
    IN IF is_root_page(d3.nodes[parent]) THEN adjust_root(d3, parent)
       ELSE IF get_size(d3.nodes[parent]) < get_min_size(d)
       THEN coalesce_or_redistribute(d3, parent)
       ELSE d3

\* IxIndexHandle::coalesce_or_redistribute; after coalesce swapped its
\* handles, the handle neighbor that is unpinned here is the left node
coalesce_or_redistribute(d, node) ==
    IF is_root_page(d.nodes[node]) THEN adjust_root(d, node)
    ELSE IF get_size(d.nodes[node]) >= get_min_size(d) THEN d
    ELSE LET parent == d.nodes[node].parent
             d1 == fetch_node(d, parent)
             index == find_child(d1.nodes[parent], node)
             neighbor_index == IF index > 0 THEN index - 1 ELSE index + 1
             neighbor == d1.nodes[parent].rids[neighbor_index + 1]
             d2 == fetch_node(d1, neighbor)
         IN IF get_size(d2.nodes[neighbor]) + get_size(d2.nodes[node]) >= 2 * get_min_size(d)
            THEN unpin_node(unpin_node(redistribute(d2, neighbor, node, parent, index),
                                       neighbor), parent)
            ELSE unpin_node(unpin_node(coalesce(d2, neighbor, node, parent, index),
                                       IF index = 0 THEN node ELSE neighbor), parent)

\* IxIndexHandle::delete_entry on a tree that has a root: the file
\* afterwards and the value returned
ix_delete_entry(d, key) ==
    LET f == find_leaf_page(d, key)
        leaf == f.leaf
    IN IF ~leaf_lookup(f.d.nodes[leaf], key).found
       THEN [d |-> ix_unpin_page(f.d, leaf, FALSE), ok |-> FALSE]
       ELSE LET pos == node_lower_bound(f.d.nodes[leaf], key)
                d1 == [f.d EXCEPT !.nodes[leaf] = node_remove(@, key)]
                d2 == IF pos = 0 /\ get_size(d1.nodes[leaf]) > 0
                      THEN maintain_parent(d1, leaf) ELSE d1
                d3 == IF ~is_root_page(d2.nodes[leaf])
                         /\ get_size(d2.nodes[leaf]) < get_min_size(d)
                      THEN coalesce_or_redistribute(d2, leaf)
                      ELSE IF is_root_page(d2.nodes[leaf])
                      THEN coalesce_or_redistribute(d2, leaf)
                      ELSE d2
            IN [d |-> unpin_node(d3, leaf), ok |-> TRUE]

\* IxIndexHandle::get_value on a tree that has a root: the file afterwards
\* and what was found
ix_get_value(d, key) ==
    LET f == find_leaf_page(d, key)
        r == leaf_lookup(f.d.nodes[f.leaf], key)
    IN [d |-> ix_unpin_page(f.d, f.leaf, FALSE), found |-> r.found, value |-> r.value]

\* an index slot: Iid{page_no, slot_no}
Iid(p, s) == [page_no |-> p, slot_no |-> s]

\* IxIndexHandle::is_empty
is_empty(d) == d.hdr.root_page_ = IX_NO_PAGE

\* IxIndexHandle::get_value: fetch_node(root_page_) of a tree without a root
\* asks the disk for page IX_NO_PAGE, and the read error is passed on
get_value(d, key) ==
    IF is_empty(d) THEN [d |-> d, error |-> TRUE, found |-> FALSE, value |-> 0]
    ELSE LET r == ix_get_value(d, key) IN
         [d |-> r.d, error |-> FALSE, found |-> r.found, value |-> r.value]

\* IxIndexHandle::lower_bound: the Iid of the first entry >= key
ix_lower_bound(d, key) ==
    LET f == find_leaf_page(d, key)
        leaf == f.d.nodes[f.leaf]
        slot == node_lower_bound(leaf, key)
    IN [d |-> ix_unpin_page(f.d, f.leaf, FALSE),
        iid |-> IF slot = get_size(leaf) /\ leaf.next_leaf # IX_LEAF_HEADER_PAGE
                THEN Iid(leaf.next_leaf, 0) ELSE Iid(f.leaf, slot)]

\* IxIndexHandle::upper_bound: the Iid of the first entry > key, looked for
\* from position 1 of the leaf on
ix_upper_bound(d, key) ==
    LET f == find_leaf_page(d, key)
        leaf == f.d.nodes[f.leaf]
        slot == node_upper_bound(leaf, key)
    IN [d |-> ix_unpin_page(f.d, f.leaf, FALSE),
        iid |-> IF slot = get_size(leaf) /\ leaf.next_leaf # IX_LEAF_HEADER_PAGE
                THEN Iid(leaf.next_leaf, 0) ELSE Iid(f.leaf, slot)]

\* IxIndexHandle::leaf_end
leaf_end(d) ==
    LET p == d.hdr.last_leaf_ IN
    [d |-> ix_unpin_page(fetch_node(d, p), p, FALSE), iid |-> Iid(p, get_size(d.nodes[p]))]

\* IxIndexHandle::leaf_begin
leaf_begin(d) == Iid(d.hdr.first_leaf_, 0)

\* IxIndexHandle::get_rid
get_rid(d, iid) ==
    IF iid.slot_no >= get_size(d.nodes[iid.page_no])
    THEN [d |-> fetch_node(d, iid.page_no), error |-> "IndexEntryNotFoundError", rid |-> 0]
    ELSE [d |-> ix_unpin_page(fetch_node(d, iid.page_no), iid.page_no, FALSE), error |-> "none",
          rid |-> d.nodes[iid.page_no].rids[iid.slot_no + 1]]

\* IxScan::next: the node it fetches stays pinned
scan_next(d, iid) ==
    LET node == d.nodes[iid.page_no]
        slot_no == iid.slot_no + 1
    IN [d |-> fetch_node(d, iid.page_no),
        iid |-> IF iid.page_no # d.hdr.last_leaf_ /\ slot_no = get_size(node)
                THEN Iid(node.next_leaf, 0) ELSE Iid(iid.page_no, slot_no)]

(***************************************************************************)
(* The index driven by a caller: entries go in and out, keys are looked    *)
(* up, a cursor walks the leaves                                           *)
(***************************************************************************)
\* what an operation returned: how it ended and the value or Iid it gave
Ret(res, value, iid) == [res |-> res, value |-> value, iid |-> iid]

NoScan == [iid_ |-> Iid(0, 0), end_ |-> Iid(0, 0), open |-> FALSE]

RECURSIVE SumOver(_, _)
SumOver(f, S) ==
    IF S = {} THEN 0
    ELSE LET x == CHOOSE y \in S : TRUE IN f[x] + SumOver(f, S \ {x})

\* insert_entry(k, v)
IxInsert(k, v) ==
    /\ IF is_empty(tree)
       THEN /\ ret' = Ret("error", 0, Iid(0, 0))
            /\ tree' = at_call(tree)
            /\ UNCHANGED present
       ELSE LET r == ix_insert_entry(at_call(tree), k, v) IN
            /\ r.hdr.num_pages_ <= MaxIxPages
            /\ tree' = r
            /\ present' = IF present[k] = 0 THEN [present EXCEPT ![k] = v] ELSE present
            /\ ret' = Ret("ok", 0, Iid(0, 0))
    /\ scan' = NoScan
    /\ UNCHANGED <<fh, hpin, bpmvars>>

\* delete_entry(k)
IxDelete(k) ==
    /\ IF is_empty(tree)
       THEN /\ ret' = Ret("error", 0, Iid(0, 0))
            /\ tree' = at_call(tree)
            /\ UNCHANGED present
       ELSE LET r == ix_delete_entry(at_call(tree), k) IN
            /\ tree' = r.d
            /\ present' = [present EXCEPT ![k] = 0]
            /\ ret' = Ret(IF r.ok THEN "ok" ELSE "absent", 0, Iid(0, 0))
    /\ scan' = NoScan
    /\ UNCHANGED <<fh, hpin, bpmvars>>

\* get_value(k)
IxGet(k) ==
    /\ LET r == get_value(at_call(tree), k) IN
       /\ tree' = r.d
       /\ ret' = Ret(IF r.error THEN "error" ELSE IF r.found THEN "ok" ELSE "absent",
                  r.value, Iid(0, 0))
    /\ UNCHANGED <<present, scan, fh, hpin, bpmvars>>

\* lower_bound(k), upper_bound(k), leaf_end()
IxBound(k, upper) ==
    /\ ~is_empty(tree)
    /\ LET r == IF upper THEN ix_upper_bound(at_call(tree), k) ELSE ix_lower_bound(at_call(tree), k) IN
       /\ tree' = r.d
       /\ ret' = Ret("ok", 0, r.iid)
    /\ UNCHANGED <<present, scan, fh, hpin, bpmvars>>

IxLeafEnd ==
    /\ LET r == leaf_end(at_call(tree)) IN
       /\ tree' = r.d
       /\ ret' = Ret("ok", 0, r.iid)
    /\ UNCHANGED <<present, scan, fh, hpin, bpmvars>>

\* IndexScanExecutor::beginTuple without conditions: a cursor from
\* leaf_begin() to leaf_end()
ScanBegin ==
    /\ LET r == leaf_end(at_call(tree)) IN
       /\ tree' = r.d
       /\ scan' = [iid_ |-> leaf_begin(tree), end_ |-> r.iid, open |-> TRUE]
    /\ ret' = Ret("ok", 0, Iid(0, 0))
    /\ UNCHANGED <<present, fh, hpin, bpmvars>>

\* IxScan::next on a cursor that is not at its end
ScanNext ==
    /\ scan.open
    /\ scan.iid_ # scan.end_
    /\ scan.iid_.page_no \in DOMAIN tree.nodes
    /\ tree.nodes[scan.iid_.page_no].is_leaf
    /\ scan.iid_.slot_no < get_size(tree.nodes[scan.iid_.page_no])
    /\ tree.pin[scan.iid_.page_no] < MaxPin
    /\ LET r == scan_next(at_call(tree), scan.iid_) IN
       /\ tree' = r.d
       /\ scan' = [scan EXCEPT !.iid_ = r.iid]
    /\ ret' = Ret("ok", 0, Iid(0, 0))
    /\ UNCHANGED <<present, fh, hpin, bpmvars>>

\* IxScan::rid on a cursor that is not at its end
ScanRid ==
    /\ scan.open
    /\ scan.iid_ # scan.end_
    /\ scan.iid_.page_no \in DOMAIN tree.nodes
    /\ LET r == get_rid(at_call(tree), scan.iid_) IN
       /\ r.error = "none"
       /\ tree' = r.d
       /\ ret' = Ret("ok", r.rid, Iid(0, 0))
    /\ UNCHANGED <<present, scan, fh, hpin, bpmvars>>

\* the index after the keys 1..n were inserted in this order
RECURSIVE IxLoaded(_)
IxLoaded(n) ==
    IF n = 0 THEN EmptyIndex ELSE ix_insert_entry(IxLoaded(n - 1), n, 1)

InitIndex(n) ==
    /\ tree = at_call(IxLoaded(n))
    /\ present = [k \in IxKeys |-> IF k <= n THEN 1 ELSE 0]
    /\ ret = Ret("none", 0, Iid(0, 0))
    /\ scan = NoScan

(***************************************************************************)
(* The record file driven by a caller, with the pins its operations take   *)
(***************************************************************************)
HeapPages == RM_FIRST_RECORD_PAGE..MaxHeapPages
HeapRids == {Rid(p, s) : p \in HeapPages, s \in SlotNos}

\* the Rids a caller passes: slot numbers below and above the slots of a
\* page too
RidArgs == {Rid(p, s) : p \in HeapPages, s \in -1..num_records_per_page}
Bufs == 1..NumBufs

\* fetch_page_handle and create_new_page_handle pin the page of the handle
fetch_page_handle(hp, page_no) == [hp EXCEPT ![page_no] = @ + 1]

\* buffer_pool_manager_->unpin_page of a record page
unpin_page_handle(hp, page_no) == [hp EXCEPT ![page_no] = IF @ > 0 THEN @ - 1 ELSE @]

\* the page is one fetch_page_handle accepts
page_exists(f, page_no) == page_no >= 0 /\ page_no < f.file_hdr.num_pages

\* the free list from page p on: the page numbers in the order of the
\* next_free_page_no links (at most n of them)
RECURSIVE free_list_from(_, _, _)
free_list_from(f, p, n) ==
    IF p = RM_NO_PAGE \/ n = 0 \/ ~(p \in DOMAIN f.pages) THEN <<>>
    ELSE <<p>> \o free_list_from(f, f.pages[p].next_free_page_no, n - 1)

\* the predecessor loop left out: the page that became full stays linked
splice_out_skipped(f, pre, target, n) == f

\* insert_record(rid, buf), the loop that looks for the predecessor of page
\* target in the free list, from page pre on: the file afterwards
RECURSIVE splice_out(_, _, _, _)
splice_out(f, pre, target, n) ==
    IF pre = RM_NO_PAGE \/ n = 0 THEN f
    ELSE IF f.pages[pre].next_free_page_no = target
    THEN [f EXCEPT !.pages[pre].next_free_page_no = f.pages[target].next_free_page_no,
                   !.pages[target].next_free_page_no = RM_NO_PAGE]
    ELSE splice_out(f, f.pages[pre].next_free_page_no, target, n - 1)

\* the pages that loop fetches and unpins
RECURSIVE splice_out_pins(_, _, _, _, _)
splice_out_pins(f, hp, pre, target, n) ==
    IF pre = RM_NO_PAGE \/ n = 0 THEN hp
    ELSE LET hp1 == unpin_page_handle(fetch_page_handle(hp, pre), pre) IN
         IF f.pages[pre].next_free_page_no = target THEN hp1
         ELSE splice_out_pins(f, hp1, f.pages[pre].next_free_page_no, target, n - 1)

\* insert_record(rid, buf) into a clear slot of an existing page
insert_record_rid(f, rid, buf) ==
    LET p == rid.page_no
        g == [f EXCEPT !.pages[p].slots[rid.slot_no] = buf,
                       !.pages[p].bitmap[rid.slot_no] = TRUE,
                       !.pages[p].num_records = @ + 1]
    IN IF g.pages[p].num_records = num_records_per_page
       THEN IF g.file_hdr.first_free_page_no = p
            THEN [g EXCEPT !.file_hdr.first_free_page_no = g.pages[p].next_free_page_no,
                           !.pages[p].next_free_page_no = RM_NO_PAGE]
            ELSE splice_out(g, g.file_hdr.first_free_page_no, p, MaxHeapPages)
       ELSE g

\* the pins of insert_record(rid, buf)
insert_record_rid_pins(f, hp, rid) ==
    LET p == rid.page_no
        hp1 == fetch_page_handle(hp, p)
        full == f.pages[p].num_records + 1 = num_records_per_page
        hp2 == IF full /\ f.file_hdr.first_free_page_no # p
               THEN splice_out_pins(f, hp1, f.file_hdr.first_free_page_no, p, MaxHeapPages)
               ELSE hp1
    IN unpin_page_handle(hp2, p)

\* the pins of insert_record(buf): create_page_handle, then unpin_page
insert_record_pins(f, hp) ==
    LET p == create_page_handle(f).file_hdr.first_free_page_no IN
    unpin_page_handle(fetch_page_handle(hp, p), p)

\* the page of the handle stays pinned
record_pins_kept(hp, rid) == fetch_page_handle(hp, rid.page_no)

\* the pins of get_record, update_record and delete_record, whether they
\* return or throw after the slot test
record_pins(hp, rid) == unpin_page_handle(fetch_page_handle(hp, rid.page_no), rid.page_no)

\* the loop over the pages left out: the scan ends with the page of rid_
rm_scan_next_one_page(f, rid_, page_no) ==
    IF page_no >= f.file_hdr.num_pages THEN Rid(f.file_hdr.num_pages, -1)
    ELSE LET found == {s \in SlotNos : s > rid_.slot_no /\ f.pages[page_no].bitmap[s]}
         IN IF found # {}
            THEN Rid(page_no, CHOOSE s \in found : \A u \in found : s <= u)
            ELSE Rid(f.file_hdr.num_pages, -1)

\* RmScan::next from rid_: the next occupied slot, (num_pages, -1) at the end
RECURSIVE rm_scan_next(_, _, _)
rm_scan_next(f, rid_, page_no) ==
    IF page_no >= f.file_hdr.num_pages THEN Rid(f.file_hdr.num_pages, -1)
    ELSE LET start_slot == IF page_no = rid_.page_no THEN rid_.slot_no ELSE -1
             found == {s \in SlotNos : s > start_slot /\ f.pages[page_no].bitmap[s]}
         IN IF found # {}
            THEN Rid(page_no, CHOOSE s \in found : \A u \in found : s <= u)
            ELSE rm_scan_next(f, rid_, page_no + 1)

\* the pins of RmScan::next: every page it looks at is fetched and unpinned
RECURSIVE rm_scan_next_pins(_, _, _, _)
rm_scan_next_pins(f, hp, rid_, page_no) ==
    IF page_no >= f.file_hdr.num_pages THEN hp
    ELSE LET start_slot == IF page_no = rid_.page_no THEN rid_.slot_no ELSE -1
             found == {s \in SlotNos : s > start_slot /\ f.pages[page_no].bitmap[s]}
             hp1 == unpin_page_handle(fetch_page_handle(hp, page_no), page_no)
         IN IF found # {} THEN hp1 ELSE rm_scan_next_pins(f, hp1, rid_, page_no + 1)

\* RmScan::is_end
rm_is_end(f, rid_) == rid_.page_no = f.file_hdr.num_pages /\ rid_.slot_no = -1

\* RmScan::next: nothing happens at the end
RmScan_next(f, rid_) ==
    IF rm_is_end(f, rid_) THEN rid_ ELSE rm_scan_next(f, rid_, rid_.page_no)

\* the RmScan constructor: next from (RM_FIRST_RECORD_PAGE, -1)
RmScan(f) == RmScan_next(f, Rid(RM_FIRST_RECORD_PAGE, -1))

\* a whole scan, from the RmScan constructor to is_end: the pins afterwards
RECURSIVE rm_scan_all_pins(_, _, _, _)
rm_scan_all_pins(f, hp, rid_, n) ==
    IF rm_is_end(f, rid_) \/ n = 0 THEN hp
    ELSE rm_scan_all_pins(f, rm_scan_next_pins(f, hp, rid_, rid_.page_no),
                          rm_scan_next(f, rid_, rid_.page_no), n - 1)

\* insert_record(buf)
HeapInsert(buf) ==
    /\ fh.file_hdr.first_free_page_no # RM_NO_PAGE \/ fh.file_hdr.num_pages <= MaxHeapPages
    /\ LET r == insert_record(fh, buf) IN
       /\ fh' = r.fh
       /\ hpin' = insert_record_pins(fh, hpin)
       /\ ret' = Ret("ok", buf, r.rid)
    /\ UNCHANGED <<tree, present, scan, bpmvars>>

\* insert_record(rid, buf)
HeapInsertRid(rid, buf) ==
    /\ IF ~page_exists(fh, rid.page_no)
       THEN /\ ret' = Ret("PageNotExistError", 0, rid)
            /\ UNCHANGED <<fh, hpin>>
       ELSE IF rid.slot_no \notin SlotNos \/ is_set(fh, rid)
       THEN /\ ret' = Ret("InternalError", 0, rid)
            /\ hpin' = record_pins(hpin, rid)
            /\ UNCHANGED fh
       ELSE /\ fh' = insert_record_rid(fh, rid, buf)
            /\ hpin' = insert_record_rid_pins(fh, hpin, rid)
            /\ ret' = Ret("ok", buf, rid)
    /\ UNCHANGED <<tree, present, scan, bpmvars>>

\* get_record(rid)
HeapGet(rid) ==
    /\ IF ~page_exists(fh, rid.page_no)
       THEN /\ ret' = Ret("PageNotExistError", 0, rid)
            /\ UNCHANGED hpin
       ELSE IF ~is_set(fh, rid)
       THEN /\ ret' = Ret("RecordNotFoundError", 0, rid)
            /\ hpin' = record_pins(hpin, rid)
       ELSE /\ ret' = Ret("ok", get_record(fh, rid), rid)
            /\ hpin' = record_pins(hpin, rid)
    /\ UNCHANGED <<fh, tree, present, scan, bpmvars>>

\* update_record(rid, buf)
HeapUpdate(rid, buf) ==
    /\ IF ~page_exists(fh, rid.page_no)
       THEN /\ ret' = Ret("PageNotExistError", 0, rid)
            /\ UNCHANGED <<fh, hpin>>
       ELSE IF ~is_set(fh, rid)
       THEN /\ ret' = Ret("RecordNotFoundError", 0, rid)
            /\ hpin' = record_pins(hpin, rid)
            /\ UNCHANGED fh
       ELSE /\ fh' = update_record(fh, rid, buf)
            /\ hpin' = record_pins(hpin, rid)
            /\ ret' = Ret("ok", buf, rid)
    /\ UNCHANGED <<tree, present, scan, bpmvars>>

\* delete_record(rid)
HeapDelete(rid) ==
    /\ IF ~page_exists(fh, rid.page_no)
       THEN /\ ret' = Ret("PageNotExistError", 0, rid)
            /\ UNCHANGED <<fh, hpin>>
       ELSE IF ~is_set(fh, rid)
       THEN /\ ret' = Ret("RecordNotFoundError", 0, rid)
            /\ hpin' = record_pins(hpin, rid)
            /\ UNCHANGED fh
       ELSE /\ fh' = delete_record(fh, rid)
            /\ hpin' = record_pins(hpin, rid)
            /\ ret' = Ret("ok", 0, rid)
    /\ UNCHANGED <<tree, present, scan, bpmvars>>

\* a scan of the file with RmScan, from its constructor until is_end
HeapScan ==
    /\ hpin' = rm_scan_all_pins(fh, hpin, Rid(RM_FIRST_RECORD_PAGE, -1), Cardinality(HeapRids) + 1)
    /\ ret' = Ret("ok", 0, Rid(0, 0))
    /\ UNCHANGED <<fh, tree, present, scan, bpmvars>>

(***************************************************************************)
(* The buffer pool (BufferPoolManager) over one file, with an LRU replacer *)
(* and the disk manager's page store                                       *)
(***************************************************************************)
Frames == 0..(pool_size_ - 1)
PageNos == 0..(MaxBpPages - 1)
Datas == 1..NumDatas

\* a frame: Page::id_.page_no, is_dirty_, pin_count_, data_
Page(id, dirty, pin, data) ==
    [id_ |-> id, is_dirty_ |-> dirty, pin_count_ |-> pin, data_ |-> data]

\* Replacer::pin: the frame leaves the evictable frames
replacer_pin(r, f) == SelectSeq(r, LAMBDA x : x # f)

\* Replacer::unpin: the frame becomes the most recently used evictable frame
replacer_unpin(r, f) == Append(replacer_pin(r, f), f)

\* a victim choice that does not ask the replacer
find_victim_page_any(fl, r) ==
    IF fl # <<>> THEN [ok |-> TRUE, frame_id |-> Head(fl), free_list_ |-> Tail(fl),
                       replacer_ |-> r]
    ELSE [ok |-> TRUE, frame_id |-> 0, free_list_ |-> fl, replacer_ |-> r]

\* find_victim_page: the front of the free list, else the replacer's victim
\* (its least recently used frame), else nothing
find_victim_page(fl, r) ==
    IF fl # <<>> THEN [ok |-> TRUE, frame_id |-> Head(fl), free_list_ |-> Tail(fl),
                       replacer_ |-> r]
    ELSE IF r # <<>> THEN [ok |-> TRUE, frame_id |-> Head(r), free_list_ |-> fl,
                           replacer_ |-> Tail(r)]
    ELSE [ok |-> FALSE, frame_id |-> 0, free_list_ |-> fl, replacer_ |-> r]

\* an eviction that writes nothing
write_back_never(dk, pg) == dk

\* DiskManager::write_page of the frame's page if the frame is dirty
write_back(dk, pg) ==
    IF pg.is_dirty_ THEN [dk EXCEPT !.data = (pg.id_ :> pg.data_) @@ @] ELSE dk

\* DiskManager::write_page of the frame's page, dirty or not
write_page(dk, pg) == [dk EXCEPT !.data = (pg.id_ :> pg.data_) @@ @]

\* the pages of the file: write_page extends the file up to the page it
\* writes, allocate_page only counts
file_pages(dk) ==
    IF DOMAIN dk.data = {} THEN 0
    ELSE 1 + CHOOSE q \in DOMAIN dk.data : \A r \in DOMAIN dk.data : r <= q

\* DiskManager::read_page returns: read delivers the PAGE_SIZE bytes of a
\* page of the file; for a page past its end it delivers less and read_page
\* throws InternalError
read_returns(dk, p) == p < file_pages(dk)

\* DiskManager::read_page: what was written last, zeroes for a page that
\* lies before a written one and was never written
read_page(dk, p) == IF p \in DOMAIN dk.data THEN dk.data[p] ELSE 0

\* an erase that leaves the entry
erase_nothing(pt, p) == pt

\* page_table_.erase
erase(pt, p) == [q \in (DOMAIN pt) \ {p} |-> pt[q]]

\* fetch_page, new_page: the victim frame gives up the page it holds; the
\* disk and the page table afterwards
evict(dk, pt, pg) ==
    IF pg.id_ # INVALID_PAGE_ID
    THEN [disk_ |-> write_back(dk, pg), page_table_ |-> erase(pt, pg.id_)]
    ELSE [disk_ |-> dk, page_table_ |-> pt]

\* unpin_page on a mapped frame with pin_count_ > 0: the frame afterwards;
\* the caller that reports is_dirty has written data into it
unpin_frame(pg, is_dirty, data) ==
    [pg EXCEPT !.pin_count_ = @ - 1,
               !.is_dirty_ = IF is_dirty THEN TRUE ELSE @,
               !.data_ = IF is_dirty THEN data ELSE @]

\* fetch_page(page_id): a hit; else the victim frame gives up its page and
\* takes page_id, pin_count_ 1 and its place in page_table_ before read_page
\* is called, and an InternalError of read_page leaves fetch_page there
FetchPage(p) ==
    /\ p < disk_.next_page_no
    /\ IF p \in DOMAIN page_table_
       THEN LET fid == page_table_[p] IN
            /\ pages_[fid].pin_count_ < MaxPin
            /\ pages_' = [pages_ EXCEPT ![fid].pin_count_ = @ + 1]
            /\ replacer_' = replacer_pin(replacer_, fid)
            /\ net_pins' = [net_pins EXCEPT ![p] = @ + 1]
            /\ ret' = Ret("page", pages_[fid].data_, Iid(p, fid))
            /\ UNCHANGED <<page_table_, free_list_, disk_, latest>>
       ELSE LET v == find_victim_page(free_list_, replacer_) IN
            IF ~v.ok
            THEN /\ ret' = Ret("nullptr", 0, Iid(p, 0))
                 /\ UNCHANGED bpmvars
            ELSE LET e == evict(disk_, page_table_, pages_[v.frame_id]) IN
                 /\ page_table_' = (p :> v.frame_id) @@ e.page_table_
                 /\ free_list_' = v.free_list_
                 /\ disk_' = e.disk_
                 /\ IF read_returns(e.disk_, p)
                    THEN /\ pages_' = [pages_ EXCEPT ![v.frame_id] =
                                          Page(p, FALSE, 1, read_page(e.disk_, p))]
                         /\ replacer_' = replacer_pin(v.replacer_, v.frame_id)
                         /\ net_pins' = [net_pins EXCEPT ![p] = 1]
                         /\ ret' = Ret("page", read_page(e.disk_, p), Iid(p, v.frame_id))
                    ELSE /\ pages_' = [pages_ EXCEPT ![v.frame_id] = Page(p, FALSE, 1, 0)]
                         /\ replacer_' = v.replacer_
                         /\ net_pins' = [net_pins EXCEPT ![p] = 0]
                         /\ ret' = Ret("InternalError", 0, Iid(p, v.frame_id))
                 /\ UNCHANGED latest
    /\ UNCHANGED <<fh, hpin, tree, present, scan>>

\* unpin_page(page_id, is_dirty)
UnpinPage(p, is_dirty, data) ==
    /\ IF p \notin DOMAIN page_table_ \/ pages_[page_table_[p]].pin_count_ <= 0
       THEN /\ ret' = Ret("not unpinned", 0, Iid(p, 0))
            /\ UNCHANGED bpmvars
       ELSE LET fid == page_table_[p]
                pg == unpin_frame(pages_[fid], is_dirty, data)
            IN /\ pages_' = [pages_ EXCEPT ![fid] = pg]
               /\ replacer_' = IF pg.pin_count_ = 0 THEN replacer_unpin(replacer_, fid)
                               ELSE replacer_
               /\ net_pins' = [net_pins EXCEPT ![p] = @ - 1]
               /\ latest' = IF is_dirty THEN (p :> data) @@ latest ELSE latest
               /\ ret' = Ret("unpinned", 0, Iid(p, fid))
               /\ UNCHANGED <<page_table_, free_list_, disk_>>
    /\ UNCHANGED <<fh, hpin, tree, present, scan>>

\* flush_page(page_id)
FlushPage(p) ==
    /\ IF p \notin DOMAIN page_table_
       THEN /\ ret' = Ret("false", 0, Iid(p, 0))
            /\ UNCHANGED bpmvars
       ELSE LET fid == page_table_[p] IN
            /\ disk_' = write_page(disk_, pages_[fid])
            /\ pages_' = [pages_ EXCEPT ![fid].is_dirty_ = FALSE]
            /\ latest' = (p :> pages_[fid].data_) @@ latest
            /\ ret' = Ret("true", 0, Iid(p, fid))
            /\ UNCHANGED <<page_table_, free_list_, replacer_, net_pins>>
    /\ UNCHANGED <<fh, hpin, tree, present, scan>>

\* new_page(&page_id): the page number comes from DiskManager::allocate_page
NewPage ==
    /\ disk_.next_page_no < MaxBpPages
    /\ LET v == find_victim_page(free_list_, replacer_) IN
       IF ~v.ok
       THEN /\ ret' = Ret("nullptr", 0, Iid(0, 0))
            /\ UNCHANGED bpmvars
       ELSE LET e == evict(disk_, page_table_, pages_[v.frame_id])
                p == disk_.next_page_no
            IN /\ pages_' = [pages_ EXCEPT ![v.frame_id] = Page(p, FALSE, 1, 0)]
               /\ page_table_' = (p :> v.frame_id) @@ e.page_table_
               /\ free_list_' = v.free_list_
               /\ replacer_' = replacer_pin(v.replacer_, v.frame_id)
               /\ disk_' = [e.disk_ EXCEPT !.next_page_no = @ + 1]
               /\ net_pins' = [net_pins EXCEPT ![p] = 1]
               /\ ret' = Ret("page", 0, Iid(p, v.frame_id))
               /\ UNCHANGED latest
    /\ UNCHANGED <<fh, hpin, tree, present, scan>>

\* delete_page(page_id)
DeletePage(p) ==
    /\ IF p \notin DOMAIN page_table_
       THEN /\ ret' = Ret("true", 0, Iid(p, 0))
            /\ UNCHANGED bpmvars
       ELSE LET fid == page_table_[p] IN
            IF pages_[fid].pin_count_ > 0
            THEN /\ ret' = Ret("false", 0, Iid(p, fid))
                 /\ UNCHANGED bpmvars
            ELSE /\ disk_' = write_back(disk_, pages_[fid])
                 /\ page_table_' = erase(page_table_, pages_[fid].id_)
                 /\ pages_' = [pages_ EXCEPT ![fid] = Page(INVALID_PAGE_ID, FALSE, 0, 0)]
                 /\ replacer_' = replacer_pin(replacer_, fid)
                 /\ free_list_' = Append(free_list_, fid)
                 /\ ret' = Ret("true", 0, Iid(p, fid))
                 /\ UNCHANGED <<net_pins, latest>>
    /\ UNCHANGED <<fh, hpin, tree, present, scan>>

\* flush_all_pages(fd)
FlushAllPages ==
    /\ disk_' = [disk_ EXCEPT !.data =
                    [p \in DOMAIN page_table_ |-> pages_[page_table_[p]].data_] @@ @]
    /\ pages_' = [f \in Frames |->
                    IF \E p \in DOMAIN page_table_ : page_table_[p] = f
                    THEN [pages_[f] EXCEPT !.is_dirty_ = FALSE] ELSE pages_[f]]
    /\ latest' = [p \in DOMAIN page_table_ |-> pages_[page_table_[p]].data_] @@ latest
    /\ ret' = Ret("ok", 0, Iid(0, 0))
    /\ UNCHANGED <<page_table_, free_list_, replacer_, net_pins>>
    /\ UNCHANGED <<fh, hpin, tree, present, scan>>

(***************************************************************************)
(* flush_all_pages beside the operations of other threads                  *)
(***************************************************************************)
MaxRaceOps == 4     \* calls the threads make on the buffer pool

\* the layers above the buffer pool stand still, but for the thread of
\* flush_all_pages, whose position is pc[1]
PoolOnly ==
    UNCHANGED <<txn_state, lock_set, lock_table_, woken, last, unlocked, reuse,
                ih, write_set, fh, hpin, tree, present, scan>>

\* an operation of another thread; it holds latch_ from its first statement
\* to its return, which does not keep it from running while thread 1 is
\* inside the loop of flush_all_pages. An insert into or an erase from
\* page_table_ invalidates the iterator of that loop.
OtherThread ==
    /\ pc[1].st # "crashed" /\ nreq < MaxRaceOps
    /\ nreq' = nreq + 1
    /\ pc' = [pc EXCEPT ![1].caller =
                 IF pc[1].st = "flush" /\ page_table_' # page_table_ THEN "invalid" ELSE @]
    /\ UNCHANGED <<txn_state, lock_set, lock_table_, woken, last, unlocked, reuse,
                   ih, write_set>>

\* flush_all_pages up to the begin() of its loop: latch_ is not taken (the
\* scoped_lock is commented out); rel holds the entries still to visit
flush_all_begin ==
    /\ pc[1].st = "idle" /\ nreq < MaxRaceOps
    /\ nreq' = nreq + 1
    /\ pc' = [pc EXCEPT ![1] = [Idle EXCEPT !.st = "flush", !.caller = "valid",
                                            !.rel = DOMAIN page_table_]]
    /\ UNCHANGED <<bpmvars, ret>>
    /\ PoolOnly

\* one turn of the loop: the page of the entry is written and its frame is
\* marked clean. With an invalidated iterator the behaviour is undefined:
\* the turn may visit any entry of the table, or the process crashes.
flush_all_step(p) ==
    /\ pc[1].st = "flush"
    /\ p \in DOMAIN page_table_
    /\ IF pc[1].caller = "valid" THEN p \in pc[1].rel /\ UNCHANGED nreq
       ELSE nreq < MaxRaceOps /\ nreq' = nreq + 1
    /\ \/ /\ disk_' = write_page(disk_, pages_[page_table_[p]])
          /\ pages_' = [pages_ EXCEPT ![page_table_[p]].is_dirty_ = FALSE]
          /\ latest' = (p :> pages_[page_table_[p]].data_) @@ latest
          /\ pc' = [pc EXCEPT ![1].rel = @ \ {p}]
          /\ UNCHANGED <<page_table_, free_list_, replacer_, net_pins, ret>>
       \/ /\ pc[1].caller = "invalid"
          /\ pc' = [pc EXCEPT ![1].st = "crashed"]
          /\ UNCHANGED <<bpmvars, ret>>
    /\ PoolOnly

\* the loop ends: the iterator is at end(), or, invalidated, takes it for end()
flush_all_end ==
    /\ pc[1].st = "flush"
    /\ pc[1].rel = {} \/ pc[1].caller = "invalid"
    /\ pc' = [pc EXCEPT ![1] = Idle]
    /\ ret' = Ret("ok", 0, Iid(0, 0))
    /\ UNCHANGED <<nreq, bpmvars>>
    /\ PoolOnly

\* BufferPoolManager::BufferPoolManager: every frame is on the free list
InitBpm ==
    /\ pages_ = [f \in Frames |-> Page(INVALID_PAGE_ID, FALSE, 0, 0)]
    /\ page_table_ = <<>>
    /\ free_list_ = [i \in 1..pool_size_ |-> i - 1]
    /\ replacer_ = <<>>
    /\ disk_ = [data |-> <<>>, next_page_no |-> 0]
    /\ net_pins = [p \in PageNos |-> 0]
    /\ latest = <<>>

InitRest ==
    /\ hpin = [p \in HeapPages |-> 0]
    /\ InitBpm

InitStore == InitIndex(0) /\ InitRest

(***************************************************************************)
(* The lock manager and the transaction manager under concurrent callers   *)
(***************************************************************************)
\* the table after its first num_records_per_page records were inserted
RECURSIVE Loaded(_)
Loaded(n) ==
    IF n = 0 THEN [fh |-> EmptyFile, ih |-> <<>>]
    ELSE LET r == insert_record(Loaded(n - 1).fh, n) IN
         [fh |-> r.fh, ih |-> insert_entry(Loaded(n - 1).ih, n, r.rid)]

Init ==
    /\ txn_state = [t \in Txns |-> "GROWING"]
    /\ lock_set = [t \in Txns |-> {}]
    /\ lock_table_ = [o \in LockIds |-> <<>>]
    /\ pc = [t \in Txns |-> Idle]
    /\ woken = [t \in Txns |-> FALSE]
    /\ last = [t \in Txns |-> "none"]
    /\ unlocked = [t \in Txns |-> FALSE]
    /\ reuse = FALSE
    /\ nreq = 0
    /\ fh = Loaded(num_records_per_page).fh
    /\ ih = Loaded(num_records_per_page).ih
    /\ write_set = [t \in Txns |-> <<>>]
    /\ InitStore

\* the same, with callers that keep using a finished transaction
InitReuse ==
    /\ txn_state = [t \in Txns |-> "GROWING"]
    /\ lock_set = [t \in Txns |-> {}]
    /\ lock_table_ = [o \in LockIds |-> <<>>]
    /\ pc = [t \in Txns |-> Idle]
    /\ woken = [t \in Txns |-> FALSE]
    /\ last = [t \in Txns |-> "none"]
    /\ unlocked = [t \in Txns |-> FALSE]
    /\ reuse = TRUE
    /\ nreq = 0
    /\ fh = Loaded(num_records_per_page).fh
    /\ ih = Loaded(num_records_per_page).ih
    /\ write_set = [t \in Txns |-> <<>>]
    /\ InitStore

Next ==
    \/ \E t \in Txns, fn \in TableFns : lock_on_table(t, fn)
    \/ \E t \in Txns, fn \in RecordFns, rid \in Rids : lock_on_record(t, fn, rid)
    \/ \E t \in Txns : record_part(t)
    \/ \E t \in Txns : wake(t)
    \/ \E t \in Txns, o \in LockIds : unlock(t, o)
    \/ \E t \in Txns : commit_begin(t)
    \/ \E t \in Txns, o \in LockIds : release_one(t, o)
    \/ \E t \in Txns : commit_end(t)
    \/ \E t \in Txns : abort_begin(t)
    \/ \E t \in Txns : abort_end(t)

Spec == Init /\ [][Next]_vars

SpecReuse == InitReuse /\ [][Next]_vars

\* queue.cv_.wait(lk) of t returns because unlock called cv_.notify_all()
notified(t) == woken[t] /\ wake(t)

\* transactions that lock and unlock and neither commit nor abort
NextFair ==
    \/ \E t \in Txns, fn \in TableFns : lock_on_table(t, fn)
    \/ \E t \in Txns, fn \in RecordFns, rid \in Rids : lock_on_record(t, fn, rid)
    \/ \E t \in Txns : record_part(t)
    \/ \E t \in Txns : wake(t)
    \/ \E t \in Txns, o \in LockIds : unlock(t, o)

\* a thread that was notified runs again and takes the latch; a wait that
\* nobody notified need never return
SpecFair == Init /\ [][NextFair]_vars /\ \A t \in Txns : WF_vars(notified(t))

\* callers of the no-wait variant of the lock manager
NextNoWait ==
    \/ \E t \in Txns, fn \in TableFns \cup RecordFns : \E o \in FnIds(fn) :
          lock_call_no_wait(t, fn, o)
    \/ \E t \in Txns, o \in LockIds : unlock_no_wait(t, o)

SpecNoWait == Init /\ [][NextNoWait]_vars

\* transactions that lock records, run statements through the executors,
\* commit and abort
NextTxn ==
    \/ \E t \in Workers, fn \in RecordFns, rid \in Rids : lock_on_record(t, fn, rid)
    \/ \E t \in Workers : record_part(t)
    \/ \E t \in Workers : wake(t)
    \/ \E t \in Workers : seq_scan(t)
    \/ \E t \in Workers, rid \in StatementRids, key \in Keys : update_tuple(t, rid, key)
    \/ \E t \in Workers, key \in Keys : insert_tuple(t, key)
    \/ \E t \in Workers, rid \in StatementRids : delete_tuple(t, rid)
    \/ \E t \in Workers : commit_begin(t)
    \/ \E t \in Workers, o \in LockIds : release_one(t, o)
    \/ \E t \in Workers : commit_end(t)
    \/ \E t \in Workers : abort_begin(t)
    \/ \E t \in Workers : abort_end(t)

SpecTxn == Init /\ [][NextTxn]_vars

\* the layers above the storage layer stand still
Idling ==
    UNCHANGED <<txn_state, lock_set, lock_table_, pc, woken, last, unlocked, reuse,
                nreq, ih, write_set>>

\* one more of the n calls a caller makes
Call(n) ==
    /\ nreq < n
    /\ nreq' = nreq + 1
    /\ UNCHANGED <<txn_state, lock_set, lock_table_, pc, woken, last, unlocked, reuse,
                   ih, write_set>>

InitCaller ==
    /\ txn_state = [t \in Txns |-> "GROWING"]
    /\ lock_set = [t \in Txns |-> {}]
    /\ lock_table_ = [o \in LockIds |-> <<>>]
    /\ pc = [t \in Txns |-> Idle]
    /\ woken = [t \in Txns |-> FALSE]
    /\ last = [t \in Txns |-> "none"]
    /\ unlocked = [t \in Txns |-> FALSE]
    /\ reuse = FALSE
    /\ nreq = 0
    /\ ih = <<>>
    /\ write_set = [t \in Txns |-> <<>>]

\* a caller that inserts entries into an index that was loaded with the
\* keys 1..n, and deletes them
InitIx ==
    /\ InitCaller
    /\ fh = EmptyFile
    /\ \E n \in 0..NumIxKeys : InitIndex(n)
    /\ InitRest

NextIx ==
    \/ \E k \in IxKeys, v \in Vals : IxInsert(k, v) /\ Call(MaxIxOps)
    \/ \E k \in IxKeys : IxDelete(k) /\ Call(MaxIxOps)

SpecIx == InitIx /\ [][NextIx]_vars

\* a caller of the storage layer: the files are new, the pool is empty
InitHeap ==
    /\ InitCaller
    /\ fh = EmptyFile
    /\ InitStore

NextHeap ==
    \/ \E buf \in Bufs : HeapInsert(buf) /\ Idling
    \/ \E rid \in RidArgs, buf \in Bufs : HeapInsertRid(rid, buf) /\ Idling
    \/ \E rid \in RidArgs : HeapGet(rid) /\ Idling
    \/ \E rid \in RidArgs, buf \in Bufs : HeapUpdate(rid, buf) /\ Idling
    \/ \E rid \in RidArgs : HeapDelete(rid) /\ Idling
    \/ HeapScan /\ Idling

SpecHeap == InitHeap /\ [][NextHeap]_vars

\* the caller holds a pin of page p, or unpin_page will refuse
may_unpin(p) ==
    IF p \in DOMAIN page_table_
    THEN net_pins[p] > 0 \/ pages_[page_table_[p]].pin_count_ <= 0
    ELSE TRUE

\* the callers of the buffer pool; they unpin the pages they were given
NextBpm ==
    \/ \E p \in PageNos : FetchPage(p) /\ Idling
    \/ \E p \in PageNos, is_dirty \in BOOLEAN, data \in Datas :
          may_unpin(p) /\ UnpinPage(p, is_dirty, data) /\ Idling
    \/ \E p \in PageNos : FlushPage(p) /\ Idling
    \/ NewPage /\ Idling
    \/ \E p \in PageNos : DeletePage(p) /\ Idling
    \/ FlushAllPages /\ Idling

SpecBpm == InitHeap /\ [][NextBpm]_vars

\* thread 1 calls flush_all_pages while other threads call the buffer pool
NextThreads ==
    \/ \E p \in PageNos : FetchPage(p) /\ OtherThread
    \/ \E p \in PageNos, is_dirty \in BOOLEAN, data \in Datas :
          UnpinPage(p, is_dirty, data) /\ OtherThread
    \/ \E p \in PageNos : FlushPage(p) /\ OtherThread
    \/ NewPage /\ OtherThread
    \/ \E p \in PageNos : DeletePage(p) /\ OtherThread
    \/ flush_all_begin
    \/ \E p \in PageNos : flush_all_step(p)
    \/ flush_all_end

SpecThreads == InitHeap /\ [][NextThreads]_vars

\* the call returned: it threw nothing
Returns == ret'.res \in {"ok", "absent"}

\* a caller of the record file and of the index whose calls all return
InitPin ==
    /\ InitCaller
    /\ fh = Loaded(num_records_per_page).fh
    /\ \E n \in 0..NumIxKeys : InitIndex(n)
    /\ InitRest

NextPin ==
    \/ \E buf \in Bufs : HeapInsert(buf) /\ Returns /\ Call(MaxPinOps)
    \/ \E rid \in HeapRids, buf \in Bufs :
          HeapInsertRid(rid, buf) /\ Returns /\ Call(MaxPinOps)
    \/ \E rid \in HeapRids : HeapGet(rid) /\ Returns /\ Call(MaxPinOps)
    \/ \E rid \in HeapRids, buf \in Bufs : HeapUpdate(rid, buf) /\ Returns /\ Call(MaxPinOps)
    \/ \E rid \in HeapRids : HeapDelete(rid) /\ Returns /\ Call(MaxPinOps)
    \/ HeapScan /\ Returns /\ Call(MaxPinOps)
    \/ \E k \in IxKeys, v \in Vals : IxInsert(k, v) /\ Returns /\ Call(MaxPinOps)
    \/ \E k \in IxKeys : IxDelete(k) /\ Returns /\ Call(MaxPinOps)
    \/ \E k \in IxKeys : IxGet(k) /\ Returns /\ Call(MaxPinOps)
    \/ \E k \in IxKeys, upper \in BOOLEAN : IxBound(k, upper) /\ Returns /\ Call(MaxPinOps)
    \/ IxLeafEnd /\ Returns /\ Call(MaxPinOps)
    \/ ScanBegin /\ Returns /\ Call(MaxPinOps)
    \/ ScanNext /\ Returns /\ Call(MaxPinOps)
    \/ ScanRid /\ Returns /\ Call(MaxPinOps)

SpecPin == InitPin /\ [][NextPin]_vars

\* a caller that inserts keys into a new index, in any order, and then
\* deletes keys that are in it, in any order; nreq counts the deletes
InitDrain ==
    /\ InitCaller
    /\ fh = EmptyFile
    /\ InitStore

NextDrain ==
    \/ \E k \in 1..NumDrainKeys : nreq = 0 /\ present[k] = 0 /\ IxInsert(k, 1) /\ Idling
    \/ \E k \in 1..NumDrainKeys : present[k] # 0 /\ IxDelete(k) /\ Call(NumDrainKeys)

SpecDrain == InitDrain /\ [][NextDrain]_vars

\* a caller that inserts keys, in any order, into a new index whose file
\* header gives the order btree_order_ or the next one
InitOrder ==
    /\ InitCaller
    /\ fh = EmptyFile
    /\ \E order \in btree_order_..(btree_order_ + 1) :
          tree = at_call([EmptyIndex EXCEPT !.hdr.btree_order_ = order])
    /\ present = [k \in IxKeys |-> 0]
    /\ ret = Ret("none", 0, Iid(0, 0))
    /\ scan = NoScan
    /\ InitRest

NextOrder ==
    \E k \in 1..NumOrderKeys : present[k] = 0 /\ IxInsert(k, 1) /\ Idling

SpecOrder == InitOrder /\ [][NextOrder]_vars

(***************************************************************************)
(* Properties of the lock manager                                          *)
(***************************************************************************)
\* the mode matrix: request mode a is compatible with held mode b
MatrixCompatible(a, b) ==
    \/ a = "IS" /\ b \in {"IS", "IX", "S", "SIX"}
    \/ a = "IX" /\ b \in {"IS", "IX"}
    \/ a = "S" /\ b \in {"IS", "S"}
    \/ a = "SIX" /\ b = "IS"

\* t holds a granted lock of one of the modes ms on o
Holds(t, o, ms) ==
    \E j \in 1..Len(lock_table_[o]) :
        /\ lock_table_[o][j].txn_id_ = t
        /\ lock_table_[o][j].granted_
        /\ lock_table_[o][j].lock_mode_ \in ms

\* a is blocked and b holds a granted lock that conflicts with a's request
WaitsForHolder(a, b) ==
    /\ a # b
    /\ pc[a].st = "wait"
    /\ \E j \in 1..Len(lock_table_[pc[a].obj]) :
          LET r == lock_table_[pc[a].obj][j] IN
          r.txn_id_ = b /\ r.granted_ /\ ~MatrixCompatible(ReqMode(pc[a].fn), r.lock_mode_)

\* a is blocked and an ungranted request of b is ahead of a's in the queue
WaitsForEarlier(a, b) ==
    /\ a # b
    /\ pc[a].st = "wait"
    /\ LET q == lock_table_[pc[a].obj] IN
       \E j \in 1..Len(q) : q[j].txn_id_ = b /\ ~q[j].granted_ /\ j < WaitPos(q, a)

WaitsFor(a, b) == WaitsForHolder(a, b) \/ WaitsForEarlier(a, b)

\* C1: on every lock object, any two granted requests of different
\* transactions have compatible modes
C1_GrantedCompatible ==
    \A o \in LockIds : \A i, j \in 1..Len(lock_table_[o]) :
        LET q == lock_table_[o] IN
        (q[i].granted_ /\ q[j].granted_ /\ q[i].txn_id_ # q[j].txn_id_)
            => MatrixCompatible(q[i].lock_mode_, q[j].lock_mode_)

\* two transactions hold granted locks on one record, and a third object
\* is held exclusively after an S->X upgrade or an X request
C1_Witness ==
    /\ \E o \in LockIds : \E a, b \in Txns :
          a # b /\ Holds(a, o, LockModes) /\ Holds(b, o, LockModes)
    /\ \E r \in Rids, t \in Txns : Holds(t, r, {"X"})

\* C2: no set of blocked transactions in which each waits for another member
C2_NoCyclicWait ==
    ~ \E S \in SUBSET Txns :
        /\ S # {}
        /\ \A a \in S : \E b \in S : WaitsFor(a, b)

\* the granted locks of t: object and mode
GrantedOf(t) ==
    {<<o, m>> \in LockIds \X LockModes : Holds(t, o, {m})}

\* C3: once unlock has been called for a transaction, none of its lock
\* requests is granted: it gains no granted lock
C3_NoGrantAfterUnlock ==
    [][ \A t \in Txns : unlocked[t] => GrantedOf(t)' \subseteq GrantedOf(t) ]_vars

\* an older transaction holds a granted lock on o that conflicts with mode m
OlderConflict(t, o, m) ==
    \E j \in 1..Len(lock_table_[o]) :
        LET r == lock_table_[o][j] IN
        r.granted_ /\ r.txn_id_ < t /\ ~MatrixCompatible(m, r.lock_mode_)

\* the request failed with DeadlockPrevention and left the lock table and
\* the lock set as they were
DiedUnchanged(t) ==
    /\ pc'[t] = Idle
    /\ last'[t] = "DEADLOCK_PREVENTION"
    /\ lock_table_' = lock_table_
    /\ lock_set' = lock_set

\* C5 as stated: a lock call on an object on which an older transaction holds
\* a conflicting granted lock never blocks and fails with DeadlockPrevention
C5_YoungerDies_Original ==
    [][ /\ \A t \in Txns, fn \in TableFns :
              (lock_on_table(t, fn) /\ OlderConflict(t, Tab, ReqMode(fn)))
                  => DiedUnchanged(t)
        /\ \A t \in Txns, fn \in RecordFns, rid \in Rids :
              (lock_on_record(t, fn, rid) /\ OlderConflict(t, rid, ReqMode(fn)))
                  => /\ pc'[t].st # "wait"
                     /\ pc'[t].st = "idle" => last'[t] = "DEADLOCK_PREVENTION"
        /\ \A t \in Txns :
              (record_part(t) /\ OlderConflict(t, pc[t].obj, ReqMode(pc[t].fn)))
                  => DiedUnchanged(t) ]_vars

\* C5 amended: a request of a transaction that is not SHRINKING, once it is
\* at the queue of the object (a table lock call, or a record lock call after
\* its intention lock returned), dies without blocking and changes nothing
C5_YoungerDies ==
    [][ /\ \A t \in Txns, fn \in TableFns :
              (lock_on_table(t, fn) /\ txn_state[t] # "SHRINKING"
                  /\ OlderConflict(t, Tab, ReqMode(fn)))
                  => DiedUnchanged(t)
        /\ \A t \in Txns :
              (record_part(t) /\ txn_state[t] # "SHRINKING"
                  /\ OlderConflict(t, pc[t].obj, ReqMode(pc[t].fn)))
                  => DiedUnchanged(t) ]_vars

\* a transaction died on a record on which an older one holds a lock, and
\* kept the table lock it held
C5_Witness ==
    \E t \in Txns, r \in Rids :
        /\ last[t] = "DEADLOCK_PREVENTION"
        /\ pc[t] = Idle
        /\ \E b \in Txns : b < t /\ Holds(b, r, LockModes)
        /\ Holds(t, Tab, LockModes)

WentToWait(a) ==
    /\ pc'[a].st = "wait"
    /\ pc[a].st # "wait" \/ (woken[a] /\ ~woken'[a])

C7_MultiGranularity ==
    \A t \in Txns :
        /\ txn_state[t] = "GROWING" =>
              \A r \in Rids :
                  /\ Holds(t, r, {"S"}) => Holds(t, Tab, {"IS", "IX", "S", "SIX", "X"})
                  /\ Holds(t, r, {"X"}) => Holds(t, Tab, {"IX", "SIX", "X"})
        /\ pc[t].st = "record" =>
              /\ last[t] = "granted"
              /\ pc[t].fn = "lock_shared_on_record"
                    => Holds(t, Tab, {"IS", "IX", "S", "SIX", "X"})
              /\ pc[t].fn = "lock_exclusive_on_record"
                    => Holds(t, Tab, {"IX", "SIX", "X"})

\* a GROWING transaction holds X on a record, another holds S on another
C7_Witness ==
    \E t, u \in Txns, r, r2 \in Rids :
        /\ t # u /\ r # r2
        /\ txn_state[t] = "GROWING" /\ Holds(t, r, {"X"})
        /\ txn_state[u] = "GROWING" /\ Holds(u, r2, {"S"})

(***************************************************************************)
(* Properties of the statements, commit and abort                          *)
(***************************************************************************)
\* the write set of u has a record for rid
HasWritten(u, rid) ==
    \E i \in 1..Len(write_set[u]) : write_set[u][i].rid_ = rid

\* another transaction that is still active has written rid
DirtyFor(t, rid) ==
    \E u \in Workers \ {t} : Active(u) /\ HasWritten(u, rid)

\* C4: a transaction that holds the table lock of its scan never updates a
\* record that another still-active transaction has written, and a scan
\* that got its table lock never reads such a record
C4_ConflictSerializable ==
    [][ /\ \A t \in Workers, rid \in StatementRids, key \in Keys :
              (update_tuple(t, rid, key) /\ Holds(t, Tab, {"S"}))
                  => ~DirtyFor(t, rid)
        /\ \A t \in Workers :
              (seq_scan(t) /\ last'[t] = "granted")
                  => \A rid \in AllRids(fh) : is_set(fh, rid) => ~DirtyFor(t, rid) ]_vars

\* a step of commit(t)
CommitStep(t) ==
    \/ commit_begin(t)
    \/ pc[t].st = "commit" /\ \E o \in LockIds : release_one(t, o)
    \/ commit_end(t)

\* some queue holds a request of t
InQueue(t) ==
    \E o \in LockIds : \E j \in 1..Len(lock_table_[o]) : lock_table_[o][j].txn_id_ = t

\* C8: commit leaves the heap and the index as they are, and when it returns
\* no queue holds a request of the transaction, its lock set and its write
\* set are empty and its state went from SHRINKING to COMMITTED
C8_CommitReleasesAll ==
    [][ \A t \in Txns :
            /\ CommitStep(t) => (fh' = fh /\ ih' = ih)
            /\ commit_end(t) =>
                  /\ ~InQueue(t)'
                  /\ lock_set'[t] = {}
                  /\ write_set'[t] = <<>>
                  /\ txn_state[t] = "SHRINKING"
                  /\ txn_state'[t] = "COMMITTED" ]_vars

\* a transaction that wrote to the table and held locks has committed: the
\* table is not as it was loaded, and nobody else ran anything
C8_Witness ==
    \E t \in Workers :
        /\ last[t] = "committed" /\ unlocked[t]
        /\ fh # Loaded(num_records_per_page).fh
        /\ \A u \in Txns \ {t} : last[u] = "none"

\* how many records of the file carry the payload key
Count(f, key) ==
    Cardinality({rid \in AllRids(f) : is_set(f, rid) /\ get_record(f, rid) = key})

\* t is aborted and no other transaction has run anything
AbortedAlone(t) ==
    /\ txn_state[t] = "ABORTED"
    /\ \A u \in Txns \ {t} : last[u] = "none" /\ txn_state[u] = "GROWING"

\* C9: after abort returns the table holds the multiset of payloads it held
\* when the transaction began
C9_AbortRestoresHeap ==
    \A t \in Workers :
        AbortedAlone(t) =>
            \A key \in Keys : Count(fh, key) = Count(Loaded(num_records_per_page).fh, key)

\* C10: after abort returns the index holds the keys it held when the
\* transaction began, each with the Rid of the record that carries it
C10_AbortRestoresIndex ==
    \A t \in Workers :
        AbortedAlone(t) =>
            /\ DOMAIN ih = DOMAIN Loaded(num_records_per_page).ih
            /\ \A key \in DOMAIN ih : is_set(fh, ih[key]) /\ get_record(fh, ih[key]) = key

(***************************************************************************)
(* Properties of the storage layer                                         *)
(***************************************************************************)
\* the pins held on the pages of the record file and of the index file
sum_pin_count == SumOver(hpin, DOMAIN hpin) + SumOver(tree.pin, DOMAIN tree.pin)

\* C11: pin conservation. After any sequence of record file operations,
\* index operations and index cursor steps that all returned, no page is
\* left pinned: the pin counts of all pages add up to 0.
C11_PinConservation == sum_pin_count = 0

\* the frames in a list of frames
InList(s, f) == \E i \in 1..Len(s) : s[i] = f

\* the frame that holds page p, if one does
Resident(p) == p \in DOMAIN page_table_

C15_PinCountIsNetPins ==
    /\ [](\A p \in DOMAIN page_table_ :
              /\ pages_[page_table_[p]].pin_count_ = net_pins[p]
              /\ pages_[page_table_[p]].pin_count_ >= 0)
    /\ [][LET p == ret'.iid.page_no IN
           /\ ret'.res = "unpinned" =>
                 /\ Resident(p)
                 /\ pages_[page_table_[p]].pin_count_ > 0
                 /\ pages_'[page_table_[p]].pin_count_ = pages_[page_table_[p]].pin_count_ - 1
           /\ ret'.res = "not unpinned" =>
                 /\ ~Resident(p) \/ pages_[page_table_[p]].pin_count_ = 0
                 /\ UNCHANGED bpmvars]_vars

(***************************************************************************)
(* Properties of the record heap                                           *)
(***************************************************************************)
\* the record pages of the file
RecordPages(f) == RM_FIRST_RECORD_PAGE..(f.file_hdr.num_pages - 1)

\* the pages reachable from file_hdr.first_free_page_no, in list order
free_list(f) == free_list_from(f, f.file_hdr.first_free_page_no, MaxHeapPages + 2)

\* the number of set bits of the bitmap of page p
popcount(f, p) == Cardinality({s \in SlotNos : f.pages[p].bitmap[s]})

\* C16: every heap page has num_records equal to the number of set bits of
\* its bitmap, and a page is reachable from first_free_page_no through the
\* next_free_page_no links exactly when its num_records is less than
\* num_records_per_page, each such page exactly once in the list.
C16_BitmapAndFreeList ==
    LET fl == free_list(fh) IN
    /\ \A p \in RecordPages(fh) : fh.pages[p].num_records = popcount(fh, p)
    /\ \A p \in RecordPages(fh) :
          InList(fl, p) <=> fh.pages[p].num_records < num_records_per_page
    /\ \A i \in 1..Len(fl) : fl[i] \in RecordPages(fh)
    /\ \A i, j \in 1..Len(fl) : i # j => fl[i] # fl[j]

\* a record went into the last clear slot of a page that was not the head
\* of the free list: the page is full and unlinked, and the two other pages
\* are still in the list
C16_Witness ==
    /\ ret.res = "ok"
    /\ ret.value \in Bufs
    /\ fh.file_hdr.num_pages = MaxHeapPages + 1
    /\ fh.pages[ret.iid.page_no].num_records = num_records_per_page
    /\ fh.pages[ret.iid.page_no].next_free_page_no = RM_NO_PAGE
    /\ Len(free_list(fh)) = 2
    /\ \E i \in 1..2 : free_list(fh)[i] < ret.iid.page_no
    /\ \E i \in 1..2 : free_list(fh)[i] > ret.iid.page_no

\* the Rids of the live records of the file
LiveRids(f) == {rid \in HeapRids : is_set(f, rid)}

\* C17: insert_record(buf) returns a Rid that was unoccupied before the call
\* and get_record of that Rid returns buf; update_record(rid, b) makes
\* get_record(rid) return b and leaves the set of live Rids as it was; a live
\* record changes its payload only by its own update_record and ceases to be
\* live only by its own delete_record, so no Rid is handed out while its
\* record lives.
C17_RidStability ==
    [][/\ \A buf \in Bufs : HeapInsert(buf) =>
              /\ ~is_set(fh, ret'.iid)
              /\ LiveRids(fh') = LiveRids(fh) \cup {ret'.iid}
              /\ get_record(fh', ret'.iid) = buf
       /\ \A rid \in HeapRids, buf \in Bufs : (HeapUpdate(rid, buf) /\ ret'.res = "ok") =>
              /\ LiveRids(fh') = LiveRids(fh)
              /\ get_record(fh', rid) = buf
       /\ \A rid \in LiveRids(fh) :
              /\ rid \in LiveRids(fh') =>
                    \/ get_record(fh', rid) = get_record(fh, rid)
                    \/ HeapUpdate(rid, get_record(fh', rid))
              /\ rid \notin LiveRids(fh') => HeapDelete(rid)]_vars

\* a slot that was freed holds a record again, the call returned its Rid and
\* payload, and the record in the slot after it on the page lives with
\* another payload
C17_Witness ==
    /\ ret.res = "ok"
    /\ ret.value \in Bufs
    /\ ret.iid.slot_no = 0
    /\ is_set(fh, ret.iid)
    /\ get_record(fh, ret.iid) = ret.value
    /\ is_set(fh, Rid(ret.iid.page_no, 1))
    /\ get_record(fh, Rid(ret.iid.page_no, 1)) # ret.value
    /\ fh.file_hdr.first_free_page_no # RM_NO_PAGE
    /\ fh.file_hdr.first_free_page_no # ret.iid.page_no

(***************************************************************************)
(* Properties of the B+ tree                                               *)
(***************************************************************************)
\* C18: after insert_entry(k, v) for an absent key k, get_value(k) returns
\* v, and after delete_entry(k), get_value(k) reports that k is not present,
\* in every reachable state of the index, the tree from which every key was
\* deleted included.
C18_RoundTrip ==
    [][/\ \A k \in IxKeys, v \in Vals : (present[k] = 0 /\ IxInsert(k, v)) =>
              LET r == get_value(tree', k) IN ~r.error /\ r.found /\ r.value = v
       /\ \A k \in IxKeys : IxDelete(k) =>
              LET r == get_value(tree', k) IN ~r.error /\ ~r.found]_vars

\* the keys read along the leaf chain: from leaf p on through the next_leaf
\* links up to the sentinel page, each leaf from left to right (at most n
\* leaves)
RECURSIVE leaf_chain(_, _, _)
leaf_chain(d, p, n) ==
    IF p = IX_LEAF_HEADER_PAGE \/ n = 0 THEN <<>>
    ELSE d.nodes[p].keys \o leaf_chain(d, d.nodes[p].next_leaf, n - 1)

\* the keys the index holds
IndexKeys == {k \in IxKeys : present[k] # 0}

\* C19: following the leaf chain from first_leaf_ and reading the keys of
\* each leaf from left to right yields every key of the index exactly once,
\* in strictly ascending order.
C19_LeafChainOrder ==
    LET c == leaf_chain(tree, tree.hdr.first_leaf_, MaxIxPages) IN
    /\ \A i \in 1..(Len(c) - 1) : c[i] < c[i + 1]
    /\ {c[i] : i \in 1..Len(c)} = IndexKeys
    /\ Len(c) = Cardinality(IndexKeys)

\* the pages of the subtree under page p (of height at most n)
RECURSIVE subtree(_, _, _)
subtree(d, p, n) ==
    IF d.nodes[p].is_leaf \/ n = 0 THEN {p}
    ELSE {p} \cup UNION {subtree(d, d.nodes[p].rids[i], n - 1) : i \in 1..Len(d.nodes[p].rids)}

\* the keys stored in the nodes of the subtree under page p
subtree_keys(d, p) ==
    UNION {{d.nodes[q].keys[i] : i \in 1..Len(d.nodes[q].keys)} : q \in subtree(d, p, MaxIxPages)}

\* the internal nodes of the tree
internal_nodes(d) ==
    IF is_empty(d) THEN {}
    ELSE {p \in subtree(d, d.hdr.root_page_, MaxIxPages) : ~d.nodes[p].is_leaf}

\* the pages of the tree
tree_pages(d) == IF is_empty(d) THEN {} ELSE subtree(d, d.hdr.root_page_, MaxIxPages)

\* after deletes and inserts the chain runs over at least three leaves, a
\* leaf that came from a split lies before an older one, and a leaf that was
\* merged into its neighbour has left the tree
C19_Witness ==
    /\ nreq = MaxIxOps
    /\ Cardinality(IndexKeys) >= 5
    /\ \E p \in tree_pages(tree) :
          /\ tree.nodes[p].is_leaf
          /\ tree.nodes[p].next_leaf # IX_LEAF_HEADER_PAGE
          /\ tree.nodes[p].next_leaf < p
    /\ \E q \in DOMAIN tree.nodes :
          /\ q # IX_LEAF_HEADER_PAGE
          /\ q \notin tree_pages(tree)
          /\ tree.nodes[q].is_leaf

\* C20: for every internal node n and every key position i >= 1, every key
\* stored in the subtree under child i is >= n.key[i] and every key stored
\* in the subtree under child i-1 is < n.key[i].
C20_InternalSeparator ==
    \A p \in internal_nodes(tree) :
       \A i \in 1..(get_size(tree.nodes[p]) - 1) :
          /\ \A k \in subtree_keys(tree, tree.nodes[p].rids[i + 1]) :
                k >= tree.nodes[p].keys[i + 1]
          /\ \A k \in subtree_keys(tree, tree.nodes[p].rids[i]) :
                k < tree.nodes[p].keys[i + 1]

\* a delete under the first child of the root of a tree of three levels has
\* made that child take a child from its sibling: its last child is a page
\* that was created after it, and the key of the root for the sibling is the
\* first key of what the sibling has kept
C20_Witness ==
    /\ nreq >= 1
    /\ ret.res = "ok"
    /\ present[1] = 0
    /\ ~is_empty(tree)
    /\ LET root == tree.nodes[tree.hdr.root_page_] IN
       /\ ~root.is_leaf
       /\ get_size(root) = 2
       /\ ~tree.nodes[root.rids[1]].is_leaf
       /\ LET c1 == tree.nodes[root.rids[1]]
              moved == c1.rids[get_size(c1)]
          IN /\ moved > root.rids[1]
             /\ tree.nodes[moved].parent = root.rids[1]
             /\ c1.keys[get_size(c1)] = tree.nodes[moved].keys[1]
             /\ root.keys[2] = tree.nodes[root.rids[2]].keys[1]
             /\ root.keys[2] > tree.nodes[moved].keys[1]

\* the internal node of the tree that has page q among its children
holder(d, q) == CHOOSE n \in internal_nodes(d) : InList(d.nodes[n].rids, q)

\* the sibling coalesce_or_redistribute takes for q: the one before it in
\* the parent, the one after it for the first child
sibling(d, q) ==
    LET n == d.nodes[holder(d, q)]
        index == find_child(n, q)
    IN n.rids[IF index > 0 THEN index ELSE index + 2]

\* the non-root nodes that fall below get_min_size in the step: the leaf
\* that loses a key, and an internal node that loses a child
underflown ==
    {q \in tree_pages(tree) \ {tree.hdr.root_page_} :
        /\ get_size(tree.nodes[q]) = get_min_size(tree)
        /\ IF tree.nodes[q].is_leaf
           THEN \E i \in 1..get_size(tree.nodes[q]) :
                   LET k == tree.nodes[q].keys[i] IN present[k] # 0 /\ present'[k] = 0
           ELSE \E i \in 1..get_size(tree.nodes[q]) :
                   tree.nodes[q].rids[i] \notin tree_pages(tree')}

\* C21: after every completed insert_entry or delete_entry every non-root
\* node, leaf or internal, has get_min_size <= size <= get_max_size with
\* get_min_size = get_max_size / 2 (so both halves of a split have at least
\* get_min_size entries); a node that underflows is repaired by redistribute
\* (both nodes stay, the sibling gives one entry) when the sizes of sibling
\* and node add up to 2 * get_min_size or more, and by coalesce (one of the
\* two leaves the tree) otherwise.
C21_Balance ==
    /\ [](\A p \in tree_pages(tree) \ {tree.hdr.root_page_} :
              /\ get_min_size(tree) <= get_size(tree.nodes[p])
              /\ get_size(tree.nodes[p]) <= get_max_size(tree))
    /\ [](get_min_size(tree) = get_max_size(tree) \div 2)
    /\ [][\A q \in underflown :
             LET nb == sibling(tree, q) IN
             IF get_size(tree.nodes[nb]) + get_size(tree.nodes[q]) - 1 >= 2 * get_min_size(tree)
             THEN /\ {q, nb} \subseteq tree_pages(tree')
                  /\ get_size(tree'.nodes[q]) = get_min_size(tree)
                  /\ get_size(tree'.nodes[nb]) = get_size(tree.nodes[nb]) - 1
             ELSE Cardinality({q, nb} \cap tree_pages(tree')) = 1]_vars

\* a delete has made a leaf and then its parent underflow: the parent took
\* a child from its sibling, the tree has kept its three levels, and a leaf
\* that came from a split holds get_min_size keys
C21_Witness ==
    /\ ret.res = "ok"
    /\ nreq >= 1
    /\ ~is_empty(tree)
    /\ LET root == tree.nodes[tree.hdr.root_page_] IN
       /\ ~root.is_leaf
       /\ ~tree.nodes[root.rids[1]].is_leaf
       /\ \E p \in tree_pages(tree) :
             /\ tree.nodes[p].is_leaf
             /\ get_size(tree.nodes[p]) = get_max_size(tree) - 1
             /\ tree.nodes[p].keys[1] > 1
             /\ present[tree.nodes[p].keys[1] - 1] = 0
       /\ \E p \in tree_pages(tree) :
             /\ tree.nodes[p].is_leaf
             /\ p > IX_INIT_ROOT_PAGE
             /\ get_size(tree.nodes[p]) = get_min_size(tree)
       /\ \E q \in DOMAIN tree.nodes :
             q # IX_LEAF_HEADER_PAGE /\ q \notin tree_pages(tree)

\* the child pointers of the internal nodes of the tree that name page c:
\* the node and the position of each
pointers_to(d, c) ==
    {x \in internal_nodes(d) \X (0..(get_max_size(d) - 1)) :
        x[2] < get_size(d.nodes[x[1]]) /\ d.nodes[x[1]].rids[x[2] + 1] = c}

\* C22: every non-root node c is referenced by exactly one child pointer of
\* exactly one internal node n, and c.parent = n; the node at root_page_ has
\* the sentinel parent.
C22_ParentLinkage ==
    ~is_empty(tree) =>
       /\ tree.nodes[tree.hdr.root_page_].parent = IX_NO_PAGE
       /\ \A c \in tree_pages(tree) \ {tree.hdr.root_page_} :
             /\ Cardinality(pointers_to(tree, c)) = 1
             /\ \A x \in pointers_to(tree, c) : tree.nodes[c].parent = x[1]

\* the root of a tree of three levels has collapsed in adjust_root: the root
\* is an internal node that was merged with its sibling and has children
\* that were created after it, and the old root has left the tree
C22_Witness ==
    /\ ret.res = "ok"
    /\ nreq >= 1
    /\ ~is_empty(tree)
    /\ LET r == tree.hdr.root_page_ IN
       /\ ~tree.nodes[r].is_leaf
       /\ get_size(tree.nodes[r]) >= 3
       /\ \E i \in 1..get_size(tree.nodes[r]) :
             tree.nodes[r].rids[i] > r /\ tree.nodes[tree.nodes[r].rids[i]].is_leaf
       /\ \E q \in DOMAIN tree.nodes :
             /\ q > r
             /\ ~tree.nodes[q].is_leaf
             /\ q \notin tree_pages(tree)
             /\ tree.nodes[q].parent = IX_NO_PAGE

\* the pages met along the next_leaf links from leaf p on up to the
\* sentinel page (at most n of them)
RECURSIVE leaf_pages(_, _, _)
leaf_pages(d, p, n) ==
    IF p = IX_LEAF_HEADER_PAGE \/ n = 0 THEN <<>>
    ELSE <<p>> \o leaf_pages(d, d.nodes[p].next_leaf, n - 1)

\* the leaf at the left (right = FALSE) or right end of the subtree under p
RECURSIVE outer_leaf(_, _, _)
outer_leaf(d, p, right) ==
    IF d.nodes[p].is_leaf THEN p
    ELSE outer_leaf(d, d.nodes[p].rids[IF right THEN get_size(d.nodes[p]) ELSE 1], right)

\* C23: on a tree with a root, following next_leaf from first_leaf_ visits
\* every leaf exactly once and reaches last_leaf_ after (number of leaves -
\* 1) steps, where the chain ends; prev_leaf is the inverse of next_leaf;
\* first_leaf_ and last_leaf_ name the leftmost and the rightmost leaf.
C23_LeafChain ==
    ~is_empty(tree) =>
       LET c == leaf_pages(tree, tree.hdr.first_leaf_, MaxIxPages + 1)
           leaves == {p \in tree_pages(tree) : tree.nodes[p].is_leaf}
       IN /\ {c[i] : i \in 1..Len(c)} = leaves
          /\ Len(c) = Cardinality(leaves)
          /\ c[Len(c)] = tree.hdr.last_leaf_
          /\ tree.nodes[tree.hdr.last_leaf_].next_leaf = IX_LEAF_HEADER_PAGE
          /\ tree.nodes[tree.hdr.first_leaf_].prev_leaf = IX_LEAF_HEADER_PAGE
          /\ \A i \in 1..(Len(c) - 1) : tree.nodes[c[i + 1]].prev_leaf = c[i]
          /\ tree.hdr.first_leaf_ = outer_leaf(tree, tree.hdr.root_page_, FALSE)
          /\ tree.hdr.last_leaf_ = outer_leaf(tree, tree.hdr.root_page_, TRUE)

\* the rightmost leaf was merged into its neighbour, so that last_leaf_ is
\* not the leaf created last, and a leaf in the middle of the chain came
\* from a split of the leaf before it
C23_Witness ==
    /\ ret.res = "ok"
    /\ nreq >= 2
    /\ ~is_empty(tree)
    /\ LET c == leaf_pages(tree, tree.hdr.first_leaf_, MaxIxPages + 1) IN
       /\ Len(c) >= 4
       /\ \E q \in DOMAIN tree.nodes :
             /\ q > tree.hdr.last_leaf_
             /\ tree.nodes[q].is_leaf
             /\ q \notin tree_pages(tree)
             /\ tree.nodes[q].next_leaf = IX_LEAF_HEADER_PAGE
       /\ \E i \in 1..(Len(c) - 2) : c[i + 1] > c[i + 2]

\* C24: insert_entry(k, v') on an index that contains key k leaves the whole
\* index unchanged: the same keys, k with its Rid, the same nodes, header and
\* number of pages (no split), and the leaf is unpinned clean: no page is
\* left pinned and none is marked dirty.
C24_UniqueKey ==
    [][\A k \in IxKeys, v \in Vals : (present[k] # 0 /\ IxInsert(k, v)) =>
          /\ present' = present
          /\ tree'.hdr = tree.hdr
          /\ tree'.nodes = tree.nodes
          /\ tree'.pin = tree.pin
          /\ tree'.dirty = {}
          /\ tree'.refused = 0]_vars

\* insert_entry has returned without marking a page, on a tree of two levels
\* or more in which the key it was called with has another Rid than one
\* that the call could have brought
C24_Witness ==
    /\ nreq >= 2
    /\ ret.res = "ok"
    /\ tree.dirty = {}
    /\ ~is_empty(tree)
    /\ ~tree.nodes[tree.hdr.root_page_].is_leaf
    /\ \E k \in IxKeys : present[k] = NumVals

\* the tree is marked empty: root_page_, first_leaf_ and last_leaf_ have
\* their sentinel values
emptied(d) ==
    /\ d.hdr.root_page_ = IX_NO_PAGE
    /\ d.hdr.first_leaf_ = IX_LEAF_HEADER_PAGE
    /\ d.hdr.last_leaf_ = IX_LEAF_HEADER_PAGE

\* C25: after a set of N >= 1 distinct keys was inserted and the same keys
\* were deleted, in any order, the tree is empty: the delete_entry that
\* takes the last key leaves no key in the leaf chain and root_page_,
\* first_leaf_ and last_leaf_ at their sentinel values.
C25_DrainedTreeIsEmpty ==
    [][(present # present' /\ \A k \in IxKeys : present'[k] = 0) =>
          /\ ret'.res = "ok"
          /\ emptied(tree')
          /\ leaf_chain(tree', tree'.hdr.first_leaf_, MaxIxPages) = <<>>]_vars

\* all the keys were inserted, the tree had three levels, and all the keys
\* were deleted
C25_Witness ==
    /\ nreq = NumDrainKeys
    /\ \A k \in IxKeys : present[k] = 0
    /\ emptied(tree)
    /\ \E p \in DOMAIN tree.nodes :
          ~tree.nodes[p].is_leaf /\ \E q \in DOMAIN tree.nodes :
              ~tree.nodes[q].is_leaf /\ tree.nodes[q].parent = p

\* the leaf slots in ascending leaf order: the leaf chain with the page and
\* the position of every entry
RECURSIVE leaf_slots(_, _, _)
leaf_slots(d, p, n) ==
    IF p = IX_LEAF_HEADER_PAGE \/ n = 0 THEN <<>>
    ELSE [i \in 1..get_size(d.nodes[p]) |-> Iid(p, i - 1)]
            \o leaf_slots(d, d.nodes[p].next_leaf, n - 1)

\* the slot of the first entry, in ascending leaf order, whose key is
\* greater than key, and leaf_end() when there is none
first_greater(d, key) ==
    LET c == leaf_slots(d, d.hdr.first_leaf_, MaxIxPages)
        greater == {i \in 1..Len(c) : d.nodes[c[i].page_no].keys[c[i].slot_no + 1] > key}
    IN IF greater = {} THEN leaf_end(d).iid
       ELSE c[CHOOSE i \in greater : \A j \in greater : i <= j]

\* C26: for every index state and every key, a key smaller than every key
\* of the tree and leaves with a single entry included, upper_bound(key)
\* returns the leaf slot of the first entry, in ascending leaf order, whose
\* key is strictly greater than key, or leaf_end() when there is no such
\* entry.
C26_UpperBound ==
    [][\A k \in IxKeys : IxBound(k, TRUE) => ret'.iid = first_greater(tree, k)]_vars

(***************************************************************************)
(* Properties of the lock manager under fair scheduling                    *)
(***************************************************************************)
\* the request t waits with could be granted now: every earlier request of
\* its queue is granted and its mode is compatible with every granted lock
\* of the other transactions
grantable(t) ==
    /\ pc[t].st = "wait"
    /\ txn_state[t] = "GROWING"
    /\ LET q == lock_table_[pc[t].obj]
       IN can_grant_now(q, WaitPos(q, t), pc[t].fn, t)

\* C27: under fair scheduling, a blocked lock request that has become
\* grantable is eventually granted, without a further unlock on the object
\* being needed; two compatible requests that waited behind the same
\* released lock are both granted.
C27_ReleaseWakesWaiters ==
    \A t \in Txns : grantable(t) ~> (pc[t].st # "wait")

(***************************************************************************)
(* Properties of TransactionManager::abort                                 *)
(***************************************************************************)
\* t has a request, granted or not, in some queue
in_queue(t) ==
    \E o \in LockIds : \E j \in 1..Len(lock_table_[o]) : lock_table_[o][j].txn_id_ = t

\* C28: abort(txn) is infallible: whatever write set the inserts, updates
\* and deletes of the transaction left (an update followed by a delete of
\* the same Rid and an insert followed by a delete of the same Rid
\* included), no undo step raises an error, and abort ends with the write
\* set empty, every lock of the transaction released and the state ABORTED.
C28_AbortInfallible ==
    \A t \in Txns :
        /\ last[t] # "RecordNotFoundError"
        /\ last[t] = "aborted" =>
              /\ write_set[t] = <<>>
              /\ lock_set[t] = {}
              /\ ~in_queue(t)
              /\ txn_state[t] = "ABORTED"

(***************************************************************************)
(* Properties of the pins the index takes                                  *)
(***************************************************************************)
\* C29: no index operation unpins a page it does not hold: in insert_entry,
\* delete_entry and get_value every node that was fetched or created is
\* unpinned exactly once, so every unpin_page call of the index returns
\* true and none takes a pin that someone else holds (no pin count is lower
\* after the call than before it); delete_entry with an underflowing
\* leftmost child that is coalesced with its right sibling included.
C29_UnpinOnlyHeld ==
    /\ [](tree.refused = 0)
    /\ [][\A p \in DOMAIN tree.pin : tree'.pin[p] >= tree.pin[p]]_vars

(***************************************************************************)
(* Properties of the lock upgrade                                          *)
(***************************************************************************)
\* t is about to enter the record queue with a request for X while it
\* holds a granted S, and no granted X, on that record
upgrading(t) ==
    /\ pc[t].st = "record"
    /\ pc[t].fn = "lock_exclusive_on_record"
    /\ txn_state[t] # "SHRINKING"
    /\ LET q == lock_table_[pc[t].obj] IN
       /\ \E j \in 1..Len(q) :
             q[j].txn_id_ = t /\ q[j].granted_ /\ q[j].lock_mode_ = "S"
       /\ ~\E j \in 1..Len(q) :
             q[j].txn_id_ = t /\ q[j].granted_ /\ q[j].lock_mode_ = "X"

\* the other transactions that hold a granted lock in q
granted_others(q, t) ==
    {q[j].txn_id_ : j \in {i \in 1..Len(q) : q[i].granted_ /\ q[i].txn_id_ # t}}

\* C30: S->X upgrade on a record. When a transaction that holds granted S
\* on a record requests X, the request is granted at once, by changing the
\* existing entry to X without a new queue entry, if and only if no other
\* transaction holds a granted lock on the record; otherwise a new X
\* request is enqueued and the upgrader fails with DEADLOCK_PREVENTION,
\* keeping its S lock, if some other granted holder has a smaller id, and
\* blocks if all the other granted holders have larger ids.
C30_Upgrade ==
    [][\A t \in Txns : (upgrading(t) /\ record_part(t)) =>
          LET o == pc[t].obj
              q == lock_table_[o]
              r == lock_table_'[o]
          IN IF granted_others(q, t) = {}
             THEN /\ last'[t] = "granted"
                  /\ pc'[t].st = "idle"
                  /\ o \in lock_set'[t]
                  /\ Len(r) = Len(q)
                  /\ \A j \in 1..Len(q) :
                        r[j] = IF q[j].txn_id_ = t /\ q[j].granted_
                               THEN [q[j] EXCEPT !.lock_mode_ = "X"] ELSE q[j]
             ELSE IF \E u \in granted_others(q, t) : u < t
             THEN /\ last'[t] = "DEADLOCK_PREVENTION"
                  /\ pc'[t].st = "idle"
                  /\ r = q
                  /\ lock_set'[t] = lock_set[t]
             ELSE /\ last'[t] = "blocked"
                  /\ pc'[t].st = "wait"
                  /\ r = Append(q, [txn_id_ |-> t, lock_mode_ |-> "X", granted_ |-> FALSE])
                  /\ lock_set'[t] = lock_set[t]]_vars

\* an upgrader blocked behind a younger holder of S: its S entry is still
\* granted and its X request waits at the end of the queue
C30_Witness ==
    \E t \in Txns :
        /\ pc[t].st = "wait"
        /\ pc[t].fn = "lock_exclusive_on_record"
        /\ LET q == lock_table_[pc[t].obj] IN
           /\ \E j \in 1..Len(q) :
                 q[j].txn_id_ = t /\ q[j].granted_ /\ q[j].lock_mode_ = "S"
           /\ q[Len(q)] = [txn_id_ |-> t, lock_mode_ |-> "X", granted_ |-> FALSE]
           /\ \E u \in granted_others(q, t) : u > t

(***************************************************************************)
(* Properties of the request queues                                        *)
(***************************************************************************)
\* C31: FIFO grant order. A request that was enqueued is never marked
\* granted while an earlier request of the same queue is still ungranted,
\* even when it is compatible with every granted lock: in every queue the
\* granted requests come before the ungranted ones.
C31_FifoGrant ==
    \A o \in LockIds : \A j \in 1..Len(lock_table_[o]) :
        lock_table_[o][j].granted_ =>
            \A k \in 1..(j - 1) : lock_table_[o][k].granted_

\* a request that waits behind an ungranted request although its mode is
\* compatible with every lock granted in the queue
C31_Witness ==
    \E o \in LockIds : \E j \in 1..Len(lock_table_[o]) :
        LET q == lock_table_[o] IN
        /\ ~q[j].granted_
        /\ \E k \in 1..(j - 1) : ~q[k].granted_
        /\ \E k \in 1..Len(q) : q[k].granted_ /\ q[k].txn_id_ # q[j].txn_id_
        /\ \A k \in 1..Len(q) :
              (q[k].granted_ /\ q[k].txn_id_ # q[j].txn_id_)
                  => compatible(q[j].lock_mode_, q[k].lock_mode_)
        /\ pc[q[j].txn_id_].st = "wait"

\* t calls one of the six lock functions
lock_request(t) ==
    \/ \E fn \in TableFns : lock_on_table(t, fn)
    \/ \E fn \in RecordFns, rid \in Rids : lock_on_record(t, fn, rid)

\* C32: a lock request, by any of the six lock functions, of a transaction
\* whose state is SHRINKING fails with the abort reason LOCK_ON_SHRINKING
\* and changes nothing: no request is added to a queue of the table or of a
\* record, no granted flag changes and the lock set of the transaction is
\* as before.
C32_LockOnShrinking ==
    [][\A t \in Txns : (txn_state[t] = "SHRINKING" /\ lock_request(t)) =>
          /\ last'[t] = "LOCK_ON_SHRINKING"
          /\ pc'[t].st = "idle"
          /\ lock_table_' = lock_table_
          /\ lock_set' = lock_set
          /\ txn_state' = txn_state]_vars

\* a transaction that still held a lock after its first unlock asked for a
\* lock and was refused
C32_Witness ==
    \E t \in Txns :
        /\ last[t] = "LOCK_ON_SHRINKING"
        /\ txn_state[t] = "SHRINKING"
        /\ pc[t].st = "idle"
        /\ lock_set[t] # {}
        /\ \E u \in Txns \ {t} : lock_set[u] # {}

(***************************************************************************)
(* The no-wait variant against the wait-die variant                        *)
(***************************************************************************)
\* what the wait-die variant does with the request fn of t on o in the
\* present state
wait_die_would(t, fn, o) ==
    lock_request_by(lock_wait_die, lock_table_, lock_set[t], txn_state[t], t, fn, o)

\* C33 as stated: from any lock table the no-wait variant reaches and for
\* any lock request of a transaction in its growing phase, the no-wait
\* variant grants the request exactly when the wait-die variant would grant
\* it without blocking, with the same granted locks, and otherwise fails
\* with DEADLOCK_PREVENTION and leaves the lock table unchanged.
C33_NoWaitIsWaitDie_Original ==
    [][\A t \in Txns, fn \in TableFns \cup RecordFns : \A o \in FnIds(fn) :
          (txn_state[t] = "GROWING" /\ lock_call_no_wait(t, fn, o)) =>
              IF wait_die_would(t, fn, o).res = "granted"
              THEN /\ last'[t] = "granted"
                   /\ lock_table_' = wait_die_would(t, fn, o).lt
                   /\ lock_set'[t] = wait_die_would(t, fn, o).ls
              ELSE /\ last'[t] = "DEADLOCK_PREVENTION"
                   /\ lock_table_' = lock_table_]_vars

\* C33: from any lock table the no-wait variant reaches and for any lock
\* request of a transaction in its growing phase, the no-wait variant
\* grants the request exactly when the wait-die variant would grant it
\* without blocking, with the same granted locks, and otherwise fails with
\* DEADLOCK_PREVENTION and leaves the queue of the requested object
\* unchanged; a record request that fails on the queue of the record keeps
\* the intention lock on the table that it took first.
C33_NoWaitIsWaitDie ==
    [][\A t \in Txns, fn \in TableFns \cup RecordFns : \A o \in FnIds(fn) :
          (txn_state[t] = "GROWING" /\ lock_call_no_wait(t, fn, o)) =>
              IF wait_die_would(t, fn, o).res = "granted"
              THEN /\ last'[t] = "granted"
                   /\ lock_table_' = wait_die_would(t, fn, o).lt
                   /\ lock_set'[t] = wait_die_would(t, fn, o).ls
              ELSE /\ last'[t] = "DEADLOCK_PREVENTION"
                   /\ lock_table_'[o] = lock_table_[o]
                   /\ \/ lock_table_' = lock_table_ /\ lock_set' = lock_set
                      \/ /\ fn \in RecordFns
                         /\ lock_table_' =
                               [lock_table_ EXCEPT ![Tab] =
                                   Append(@, LockRequest(t, ReqMode(IntentionFn(fn)), TRUE))]
                         /\ lock_set'[t] = lock_set[t] \cup {Tab}]_vars

\* the second request of the run: a record request that was refused on the
\* queue of the record, where another transaction holds a lock, after it
\* took the intention lock on the table
C33_Witness ==
    \E t \in Txns :
        /\ nreq = 2
        /\ last[t] = "DEADLOCK_PREVENTION"
        /\ lock_set[t] = {Tab}
        /\ \E j \in 1..Len(lock_table_[Tab]) :
              lock_table_[Tab][j].txn_id_ = t /\ lock_table_[Tab][j].lock_mode_ \in {"IS", "IX"}
        /\ \E u \in Txns \ {t} : lock_set[u] \cap Rids # {}

(***************************************************************************)
(* Properties of the pool mutex                                            *)
(***************************************************************************)
\* C34: every public operation of the buffer pool (fetch_page, new_page,
\* unpin_page, flush_page, delete_page, flush_all_pages) holds the pool
\* mutex for its whole duration, so that each is atomic with respect to
\* the others: while flush_all_pages is inside its loop over the page
\* table, only its own turns change the page table or the metadata of a
\* frame.
C34_PoolMutex ==
    [][pc[1].st = "flush" =>
          \/ \E p \in PageNos : flush_all_step(p)
          \/ flush_all_end
          \/ page_table_' = page_table_ /\ pages_' = pages_]_vars

(***************************************************************************)
(* Properties of the keys of the internal nodes                            *)
(***************************************************************************)
\* C35: for every internal node n and every key position i, position 0
\* included, n.key[i] is the smallest key stored in the subtree under child
\* i, after any sequence of insert_entry and delete_entry (the insert of a
\* key smaller than every key of the tree included).
C35_InternalMinimum ==
    \A p \in internal_nodes(tree) :
       \A i \in 1..get_size(tree.nodes[p]) :
          LET below == subtree_keys(tree, tree.nodes[p].rids[i]) IN
          below # {} =>
              /\ tree.nodes[p].keys[i] \in below
              /\ \A k \in below : tree.nodes[p].keys[i] <= k

(***************************************************************************)
(* Properties of the splits of an index of order 4                         *)
(***************************************************************************)
\* the keys of the leaves along the leaf chain, one sequence for each leaf
leaves(d) ==
    LET c == leaf_pages(d, d.hdr.first_leaf_, MaxIxPages) IN
    [i \in 1..Len(c) |-> d.nodes[c[i]].keys]

\* the keys 1..k, and no other, are in the index
ascending(p, k) == \A j \in IxKeys : (p[j] # 0) <=> (j <= k)

\* the step inserts key k into an index of order 4 that holds 1..(k - 1)
inserts_next(k) ==
    /\ tree.hdr.btree_order_ = 4
    /\ ascending(present, k - 1)
    /\ ascending(present', k)

\* the number of leaves after the keys 1..k when the splits come with the
\* keys 4 and 7
leaves_as_stated(k) == IF k < 4 THEN 1 ELSE IF k < 7 THEN 2 ELSE 3

\* C36 as stated: from an empty index of order 4 the keys 1..7 are inserted
\* in ascending order; the insert of 4 makes the first split, the insert of
\* 7 the second, and the index ends with three leaves.
C36_SplitsAt4And7_Original ==
    [][\A k \in 1..7 :
          (inserts_next(k) /\ Len(leaves(tree)) = leaves_as_stated(k - 1)) =>
              Len(leaves(tree')) = leaves_as_stated(k)]_vars

\* the index of order 4 after the keys 1..k were inserted in ascending
\* order: one leaf up to 4 keys, {1, 2, 3} and {4..k} under the root <<1, 4>>
\* for 5, 6 and 7 keys, {1, 2, 3}, {4, 5, 6}, {7, 8} under <<1, 4, 7>> for 8
shape(d, k) ==
    /\ leaves(d) =
           (IF k < 5 THEN <<[i \in 1..k |-> i]>>
            ELSE IF k < 8 THEN <<(<<1, 2, 3>>), [i \in 1..(k - 3) |-> i + 3]>>
            ELSE <<(<<1, 2, 3>>), (<<4, 5, 6>>), (<<7, 8>>)>>)
    /\ LET root == d.nodes[d.hdr.root_page_] IN
       IF k < 5 THEN root.is_leaf
       ELSE /\ ~root.is_leaf
            /\ root.keys = (IF k < 8 THEN <<1, 4>> ELSE <<1, 4, 7>>)
            /\ Len(root.rids) = Len(leaves(d))
            /\ \A i \in 1..Len(root.rids) : d.nodes[root.rids[i]].keys = leaves(d)[i]

\* C36: from an empty index of order 4 the keys 1..8 are inserted in
\* ascending order; a leaf splits when it reaches get_max_size = 5 keys and
\* gives its last 2 keys to the new leaf, so the insert of 5 makes the first
\* split ({1, 2, 3} and {4, 5} under a new root), the inserts of 6 and 7
\* split nothing (the index with the keys 1..7 is the root <<1, 4>> over the
\* leaves {1, 2, 3} and {4, 5, 6, 7}), and the insert of 8 makes the second
\* split: the root <<1, 4, 7>> over {1, 2, 3}, {4, 5, 6} and {7, 8}, chained
\* in this order.
C36_SplitsAt5And8 ==
    [][\A k \in 1..8 : (inserts_next(k) /\ shape(tree, k - 1)) =>
          /\ shape(tree', k)
          /\ tree'.hdr.num_pages_ - tree.hdr.num_pages_ =
                 (IF k = 5 THEN 2 ELSE IF k = 8 THEN 1 ELSE 0)]_vars

\* the keys 1..8 were inserted into an index of order 4, the index is the
\* one the ascending order leaves, and its root is on the page the first
\* split took after the page of the new leaf
C36_Witness ==
    /\ tree.hdr.btree_order_ = 4
    /\ ascending(present, 8)
    /\ shape(tree, 8)
    /\ tree.hdr.first_leaf_ = IX_INIT_ROOT_PAGE
    /\ tree.hdr.root_page_ = IX_INIT_NUM_PAGES + 1
    /\ tree.hdr.num_pages_ = IX_INIT_NUM_PAGES + 3

(***************************************************************************)
(* Properties of the calls of the record file that fail                    *)
(***************************************************************************)
\* the slot of an existing page that the call names is out of range or clear
no_record(rid) == page_exists(fh, rid.page_no) /\ ~is_set(fh, rid)

\* the slot of an existing page that the call names is out of range or set
no_room(rid) == page_exists(fh, rid.page_no) /\ (rid.slot_no \notin SlotNos \/ is_set(fh, rid))

\* C37: get_record, update_record and delete_record on a slot that is out
\* of range or whose bitmap bit is clear, and insert_record(rid, buf) on a
\* slot that is out of range or occupied, raise an error and leave every
\* bitmap, num_records, free-list link, record payload and pin count as it
\* was before the call. (Every call returns the Rid it was called with in
\* ret.iid, so the call of a step is the one with the Rid ret'.iid.)
C37_FailuresLeaveNoTrace ==
    [][LET rid == ret'.iid IN
       rid \in RidArgs =>
          /\ (no_record(rid) /\ (HeapGet(rid) \/ HeapDelete(rid)
                                  \/ \E buf \in Bufs : HeapUpdate(rid, buf))) =>
                 (ret'.res = "RecordNotFoundError" /\ fh' = fh /\ hpin' = hpin)
          /\ (no_room(rid) /\ \E buf \in Bufs : HeapInsertRid(rid, buf)) =>
                 (ret'.res = "InternalError" /\ fh' = fh /\ hpin' = hpin)]_vars

\* calls of each kind have failed on a file with records: the last one named
\* a slot above the slots of a page that is full, and the file has a page on
\* the free list too
C37_Witness ==
    /\ ret.res \in {"RecordNotFoundError", "InternalError"}
    /\ ret.iid.slot_no = num_records_per_page
    /\ page_exists(fh, ret.iid.page_no)
    /\ fh.pages[ret.iid.page_no].num_records = num_records_per_page
    /\ fh.file_hdr.first_free_page_no # RM_NO_PAGE
    /\ \A p \in HeapPages : hpin[p] = 0

(***************************************************************************)
(* Properties of insert_record(buf)                                        *)
(***************************************************************************)
\* the lowest-numbered clear slot of a page that has one
first_clear(pg) == CHOOSE i \in SlotNos : ~pg.bitmap[i] /\ \A j \in 0..(i - 1) : pg.bitmap[j]

\* C38: insert_record(buf) places the record in the lowest-numbered clear
\* slot of the page at the head of the free list; only when the free list is
\* empty does it allocate exactly one new page (num_pages grows by one), put
\* the record at slot 0 of it and make it the head of the free list; when
\* the insert fills the page, the head moves to the next_free_page_no of the
\* page and the link of the page is cleared. (The call of a step is the one
\* with the payload ret'.value.)
C38_InsertPlacement ==
    [][(ret'.value \in Bufs /\ HeapInsert(ret'.value)) =>
          LET head == fh.file_hdr.first_free_page_no
              rid == ret'.iid
              after == fh'.pages[rid.page_no]
          IN /\ IF head # RM_NO_PAGE
                THEN /\ fh'.file_hdr.num_pages = fh.file_hdr.num_pages
                     /\ rid = Rid(head, first_clear(fh.pages[head]))
                     /\ IF after.num_records = num_records_per_page
                        THEN /\ fh'.file_hdr.first_free_page_no =
                                    fh.pages[head].next_free_page_no
                             /\ after.next_free_page_no = RM_NO_PAGE
                        ELSE /\ fh'.file_hdr.first_free_page_no = head
                             /\ after.next_free_page_no = fh.pages[head].next_free_page_no
                ELSE /\ fh'.file_hdr.num_pages = fh.file_hdr.num_pages + 1
                     /\ rid = Rid(fh.file_hdr.num_pages, 0)
                     /\ after.next_free_page_no = RM_NO_PAGE
                     /\ fh'.file_hdr.first_free_page_no =
                            (IF after.num_records = num_records_per_page
                             THEN RM_NO_PAGE ELSE rid.page_no)
             /\ after.num_records = Cardinality({s \in SlotNos : after.bitmap[s]})
             /\ after.slots[rid.slot_no] = ret'.value
             /\ \A q \in DOMAIN fh.pages : q # rid.page_no => fh'.pages[q] = fh.pages[q]]_vars

\* an insert has filled the page at the head of a free list of two pages:
\* the record went to a slot above a record of the page, the link of the
\* page is cleared and the head is the page that came after it
C38_Witness ==
    /\ ret.res = "ok"
    /\ ret.iid.slot_no > 0
    /\ is_set(fh, ret.iid)
    /\ fh.pages[ret.iid.page_no].num_records = num_records_per_page
    /\ fh.pages[ret.iid.page_no].next_free_page_no = RM_NO_PAGE
    /\ fh.file_hdr.first_free_page_no \notin {RM_NO_PAGE, ret.iid.page_no}
    /\ fh.file_hdr.first_free_page_no < ret.iid.page_no
    /\ fh.file_hdr.num_pages = MaxHeapPages + 1

(***************************************************************************)
(* Properties of the scan of the record file                               *)
(***************************************************************************)
\* the positions a scan stops on, from rid_ on, until is_end (n at most)
RECURSIVE scanned(_, _, _)
scanned(f, rid_, n) ==
    IF rm_is_end(f, rid_) \/ n = 0 THEN <<>>
    ELSE <<rid_>> \o scanned(f, RmScan_next(f, rid_), n - 1)

\* the position of the scan after n calls of next from rid_
RECURSIVE scan_after(_, _, _)
scan_after(f, rid_, n) ==
    IF n = 0 THEN rid_ ELSE scan_after(f, RmScan_next(f, rid_), n - 1)

rid_before(a, b) ==
    a.page_no < b.page_no \/ (a.page_no = b.page_no /\ a.slot_no < b.slot_no)

\* C39: a scan of the file, advanced with next until is_end, stops on every
\* occupied slot exactly once, in ascending (page_no, slot_no) order, never
\* on a slot that is not occupied, and ends at (num_pages, -1); on a file
\* without records it is at the end right after its construction, and next
\* at the end changes nothing.
C39_ScanVisitsAll ==
    LET seq == scanned(fh, RmScan(fh), Cardinality(HeapRids) + 1)
        final == scan_after(fh, RmScan(fh), Len(seq))
    IN /\ {seq[i] : i \in 1..Len(seq)} = LiveRids(fh)
       /\ Len(seq) = Cardinality(LiveRids(fh))
       /\ \A i \in 1..(Len(seq) - 1) : rid_before(seq[i], seq[i + 1])
       /\ final = Rid(fh.file_hdr.num_pages, -1)
       /\ rm_is_end(fh, final)
       /\ RmScan_next(fh, final) = final
       /\ (LiveRids(fh) = {} => rm_is_end(fh, RmScan(fh)))

\* a scan has run over a file of three pages whose first page has no record
\* and whose last page has a record after a clear slot
C39_Witness ==
    /\ ret = Ret("ok", 0, Rid(0, 0))
    /\ fh.file_hdr.num_pages = MaxHeapPages + 1
    /\ fh.pages[RM_FIRST_RECORD_PAGE].num_records = 0
    /\ fh.pages[RM_FIRST_RECORD_PAGE + 1].num_records = num_records_per_page
    /\ ~fh.pages[MaxHeapPages].bitmap[0]
    /\ fh.pages[MaxHeapPages].bitmap[num_records_per_page - 1]

(***************************************************************************)
(* Properties of fetch_page when read_page throws                          *)
(***************************************************************************)
\* C40: when the disk read inside fetch_page fails, the buffer pool is left
\* as it was before the call: the requested page is not in page_table_, no
\* frame is left holding it with pin_count_ 1, and the frame taken as victim
\* is still on the free list or in the replacer. (The call of a step is the
\* one for the page ret'.iid.page_no; ret'.iid.slot_no is the victim frame.)
C40_FailedReadLeavesPool ==
    [][LET p == ret'.iid.page_no
           victim == ret'.iid.slot_no
       IN (ret'.res = "InternalError" /\ FetchPage(p)) =>
             /\ p \notin DOMAIN page_table_'
             /\ \A f \in Frames : ~(pages_'[f].id_ = p /\ pages_'[f].pin_count_ = 1)
             /\ InList(free_list_', victim) \/ InList(replacer_', victim)]_vars

====
